---- MODULE Spec2Model ----
(***************************************************************************)
(* Model of the migration-warning, filter, auto-fix and dependency-graph   *)
(* functions of the terraform import generator                             *)
(* (tf_import_block_generator.ts).                                         *)
(*                                                                         *)
(* Strings the code inspects character by character (identifiers,          *)
(* integration types, relation keys, exclude patterns) are sequences of    *)
(* one-character strings: "_user" is <<"_","u","s","e","r">>.  The         *)
(* JavaScript values null and undefined are the one-element sequences Null *)
(* and Undefined, whose element is not a single character, so that neither *)
(* equals any string.  Strings the code only compares for equality (a      *)
(* page's type) are TLA+ strings.  An optional field that is absent is     *)
(* absent from the record's DOMAIN; a call that may throw returns a record *)
(* with a threw field.                                                     *)
(***************************************************************************)
EXTENDS Integers, Sequences, FiniteSets, TLC

VARIABLES
    pc,               \* "start", "once" (function applied), "twice" (applied to its own output)
    fn,               \* the function the run applies
    integrations,     \* PortIntegration[]
    blueprints,       \* PortBlueprint[]
    pages,            \* PortPage[]
    actions,          \* PortAction[]
    filterOptions,    \* FilterOptions
    importedPageIds,  \* Set<string> handed to applyPageAutoFixes
    pattern,          \* matchesExcludePattern: pattern
    resourceType,     \* matchesExcludePattern: resourceType
    identifier,       \* matchesExcludePattern: identifier
    subType,          \* matchesExcludePattern: subType (Undefined when not passed)
    humanizeKey,      \* humanizeRelationKey: key
    reportWarnings,   \* generateFixScript, generateMigrationReport: warnings
    reportAutoFixes,  \* generateMigrationReport: autoFixes
    reportCounts,     \* generateMigrationReport: resourceCounts
    reportDependencies, \* generateMigrationReport: dependencies
    reportClientId,   \* generateMigrationReport: clientId (Undefined when not passed)
    reportApiUrl,     \* generateMigrationReport: apiUrl (Undefined when not passed)
    scorecards,       \* PortScorecard[]
    webhooks,         \* PortWebhook[]
    folders,          \* PortSidebarItem[] of the sidebar fetched
    allEntities,      \* PortEntities[] collected by the entity loop
    cliOptions,       \* the command line options main reads
    processEnv,       \* the environment variables main and the client read
    heap,             \* the objects of a run of main, by reference
    out,              \* value returned by the first application
    out2              \* value returned by the application to the first output

\* the arguments of the run's function: no action changes them
inputs == <<integrations, blueprints, pages, actions, filterOptions, importedPageIds,
            pattern, resourceType, identifier, subType, humanizeKey,
            reportWarnings, reportAutoFixes, reportCounts, reportDependencies,
            reportClientId, reportApiUrl,
            scorecards, webhooks, folders, allEntities, cliOptions, processEnv>>

vars == <<pc, fn, inputs, heap, out, out2>>

-----------------------------------------------------------------------------
(* JavaScript values *)

Null == <<"null">>
Undefined == <<"undefined">>
Truthy_EmptyPasses(v) == v # Null /\ v # Undefined

\* JavaScript truthiness of a string-or-null-or-undefined value
Truthy(v) == v # Null /\ v # Undefined /\ v # <<>>

SeqsUpTo(S, n) == UNION {[1..k -> S] : k \in 0..n}

Range(s) == {s[i] : i \in 1..Len(s)}

-----------------------------------------------------------------------------
(* Characters *)

UpperLetters == <<"A","B","C","D","E","F","G","H","I","J","K","L","M",
                  "N","O","P","Q","R","S","T","U","V","W","X","Y","Z">>
LowerLetters == <<"a","b","c","d","e","f","g","h","i","j","k","l","m",
                  "n","o","p","q","r","s","t","u","v","w","x","y","z">>

CharToLower(c) ==
    IF \E i \in 1..26 : UpperLetters[i] = c
    THEN LowerLetters[CHOOSE i \in 1..26 : UpperLetters[i] = c]
    ELSE c

CharToUpper(c) ==
    IF \E i \in 1..26 : LowerLetters[i] = c
    THEN UpperLetters[CHOOSE i \in 1..26 : LowerLetters[i] = c]
    ELSE c

toLowerCase(s) == [i \in 1..Len(s) |-> CharToLower(s[i])]
toUpperCase(s) == [i \in 1..Len(s) |-> CharToUpper(s[i])]

startsWith(s, c) == Len(s) >= 1 /\ s[1] = c

\* String.prototype.split with a set of one-character separators
RECURSIVE SplitFrom(_, _, _, _)
SplitFrom(s, seps, i, word) ==
    IF i > Len(s) THEN <<word>>
    ELSE IF s[i] \in seps THEN <<word>> \o SplitFrom(s, seps, i + 1, <<>>)
    ELSE SplitFrom(s, seps, i + 1, Append(word, s[i]))

split(s, seps) == SplitFrom(s, seps, 1, <<>>)

-----------------------------------------------------------------------------
(* matchesExcludePattern: glob to regular expression, and the match *)

\* the characters of the class [.+^${}()|[\]\\] that the first replace escapes
EscapedChars == {".", "+", "^", "$", "{", "}", "(", ")", "|", "[", "]", "\\"}

\* patternValue.replace(/[.+^${}()|[\]\\]/g, '\\$&').replace(/\*/g, '.*')
RECURSIVE regexPattern(_)
regexPattern(patternValue) ==
    IF patternValue = <<>> THEN <<>>
    ELSE LET c == Head(patternValue)
             piece == IF c \in EscapedChars THEN <<"\\", c>>
                      ELSE IF c = "*" THEN <<".", "*">>
                      ELSE <<c>>
         IN  piece \o regexPattern(Tail(patternValue))

\* new RegExp: the terms between ^ and $.  An atom is an escaped character,
\* a dot or a plain character; it may carry one quantifier (* or ?), itself
\* optionally followed by the lazy mark ?.  A quantifier with no atom before
\* it is the SyntaxError "Nothing to repeat".
RECURSIVE RegExpTerms(_, _)
RegExpTerms(src, i) ==
    IF i > Len(src) THEN [threw |-> FALSE, terms |-> <<>>]
    ELSE IF src[i] \in {"*", "?"} THEN [threw |-> TRUE, terms |-> <<>>]
    ELSE LET escaped == src[i] = "\\"
             atom == IF escaped THEN [kind |-> "lit", ch |-> src[i + 1]]
                     ELSE IF src[i] = "." THEN [kind |-> "dot", ch |-> "."]
                     ELSE [kind |-> "lit", ch |-> src[i]]
             j == IF escaped THEN i + 2 ELSE i + 1
             quantified == j <= Len(src) /\ src[j] \in {"*", "?"}
             quant == IF ~quantified THEN "one"
                      ELSE IF src[j] = "*" THEN "star" ELSE "opt"
             k == IF ~quantified THEN j
                  ELSE IF j + 1 <= Len(src) /\ src[j + 1] = "?" THEN j + 2
                  ELSE j + 1
             rest == RegExpTerms(src, k)
         IN  IF rest.threw THEN rest
             ELSE [threw |-> FALSE,
                   terms |-> <<[kind |-> atom.kind, ch |-> atom.ch, quant |-> quant]>>
                             \o rest.terms]

LineTerminators == {"\n", "\r"}

\* one atom against one character, under the i flag
AtomMatches(term, c) ==
    IF term.kind = "dot" THEN c \notin LineTerminators
    ELSE CharToUpper(term.ch) = CharToUpper(c)

\* regex.test with the anchors ^ and $: terms i.. match s[j..] to its end
RECURSIVE TermsMatch(_, _, _, _)
TermsMatch(terms, i, s, j) ==
    IF i > Len(terms) THEN j > Len(s)
    ELSE LET t == terms[i]
             here == j <= Len(s) /\ AtomMatches(t, s[j])
         IN  CASE t.quant = "one"  -> here /\ TermsMatch(terms, i + 1, s, j + 1)
               [] t.quant = "opt"  -> \/ TermsMatch(terms, i + 1, s, j)
                                      \/ here /\ TermsMatch(terms, i + 1, s, j + 1)
               [] t.quant = "star" -> \/ TermsMatch(terms, i + 1, s, j)
                                      \/ here /\ TermsMatch(terms, i, s, j + 1)

regexTest(terms, s) == TermsMatch(terms, 1, s, 1)

\* the boolean returned, or threw when new RegExp rejects the converted pattern
matchesExcludePattern(pat, rType, ident, sub) ==
    LET parts == split(pat, {":"})
        Returns(b) == [threw |-> FALSE, value |-> b]
    IN  IF Len(parts) # 2 THEN Returns(FALSE)
        ELSE IF toLowerCase(parts[1]) # toLowerCase(rType) THEN Returns(FALSE)
        ELSE LET regex == RegExpTerms(regexPattern(parts[2]), 1)
             IN  IF regex.threw THEN [threw |-> TRUE, value |-> FALSE]
                 ELSE IF regexTest(regex.terms, ident) THEN Returns(TRUE)
                 ELSE IF Truthy(sub) /\ regexTest(regex.terms, sub) THEN Returns(TRUE)
                 ELSE Returns(FALSE)

-----------------------------------------------------------------------------
(* Records and optional fields *)

Has(r, f) == f \in DOMAIN r

\* r.f, undefined when the field is absent
Get(r, f) == IF f \in DOMAIN r THEN r[f] ELSE Undefined

\* { ...r, f: v }
With(r, f, v) == [g \in DOMAIN r \cup {f} |-> IF g = f THEN v ELSE r[g]]

isSystemBlueprint(id) == startsWith(id, "_")

\* variant: only the _ prefix is tested
isSystemPage_OnlyUnderscore(page) == startsWith(page.identifier, "_")

\* page.identifier.startsWith('$') || page.identifier.startsWith('_')
isSystemPage(page) == startsWith(page.identifier, "$") \/ startsWith(page.identifier, "_")

-----------------------------------------------------------------------------
(* hasAiAgentWidget.  A widget entry is                                    *)
(*   [form |-> "object", type, agentIdentifier]       a pre-parsed object  *)
(*   [form |-> "null"]                                a null entry         *)
(*   [form |-> "string", json, type, agentIdentifier, typeMarker,          *)
(*    agentMarker]                                    a string, where json *)
(*      says what JSON.parse does with it ("object", "null", "scalar" or   *)
(*      "malformed"), type and agentIdentifier are the parsed object's     *)
(*      fields, and the markers say whether the text includes              *)
(*      "type":"ai-agent" and agentIdentifier.                             *)

\* the body of the try block: "match", "nomatch", or "throw"
WidgetTry(w) ==
    IF w.form = "null" THEN "throw"
    ELSE IF w.form = "string" /\ w.json = "malformed" THEN "throw"
    ELSE IF w.form = "string" /\ w.json = "null" THEN "throw"
    ELSE IF w.form = "string" /\ w.json = "scalar" THEN "nomatch"
    ELSE IF w.type = "ai-agent" \/ Truthy(w.agentIdentifier) THEN "match"
    ELSE "nomatch"

\* variant: the catch block swallows the error and looks at nothing
WidgetCatch_Empty(w) == FALSE

\* the catch block
WidgetCatch(w) == w.form = "string" /\ (w.typeMarker \/ w.agentMarker)

RECURSIVE WidgetsFrom(_, _)
WidgetsFrom(widgets, i) ==
    IF i > Len(widgets) THEN FALSE
    ELSE LET t == WidgetTry(widgets[i])
         IN  IF t = "match" THEN TRUE
             ELSE IF t = "throw" /\ WidgetCatch(widgets[i]) THEN TRUE
             ELSE WidgetsFrom(widgets, i + 1)

hasAiAgentWidget(page) ==
    IF ~Has(page, "widgets") THEN FALSE
    ELSE WidgetsFrom(page.widgets, 1)

-----------------------------------------------------------------------------
(* Filters.  The callback of Array.prototype.filter returns a boolean or   *)
(* throws (matchesExcludePattern); a throw aborts the whole filter call.   *)

\* the for loop over options.excludePatterns: "drop" at the first pattern that
\* matches, "throw" at the first that throws, "keep" when the loop ends
RECURSIVE PatternLoop(_, _, _, _, _)
PatternLoop(patterns, i, rType, ident, sub) ==
    IF i > Len(patterns) THEN "keep"
    ELSE LET m == matchesExcludePattern(patterns[i], rType, ident, sub)
         IN  IF m.threw THEN "throw"
             ELSE IF m.value THEN "drop"
             ELSE PatternLoop(patterns, i + 1, rType, ident, sub)

Str_integration == <<"i","n","t","e","g","r","a","t","i","o","n">>
Str_blueprint == <<"b","l","u","e","p","r","i","n","t">>
Str_page == <<"p","a","g","e">>
Str_github == <<"g","i","t","h","u","b">>

integrationCallback(integration, options) ==
    IF options.excludeGithubIntegrations
       /\ toLowerCase(integration.integrationType) = Str_github
    THEN "drop"
    ELSE PatternLoop(options.excludePatterns, 1, Str_integration,
                     integration.identifier, integration.integrationType)

\* variant: the excludeSystemBlueprints flag is not consulted
blueprintCallback_IgnoresFlag(blueprint, options) ==
    IF isSystemBlueprint(blueprint.identifier)
    THEN "drop"
    ELSE PatternLoop(options.excludePatterns, 1, Str_blueprint,
                     blueprint.identifier, Undefined)

blueprintCallback(blueprint, options) ==
    IF options.excludeSystemBlueprints /\ isSystemBlueprint(blueprint.identifier)
    THEN "drop"
    ELSE PatternLoop(options.excludePatterns, 1, Str_blueprint,
                     blueprint.identifier, Undefined)

\* variant: system and virtual pages are filtered like any other page
pageCallback_NoBypass(page, options) ==
    IF options.excludeAiPages /\ hasAiAgentWidget(page) THEN "drop"
    ELSE PatternLoop(options.excludePatterns, 1, Str_page, page.identifier, Undefined)

pageCallback(page, options) ==
    IF isSystemPage(page) THEN "keep"
    ELSE IF options.excludeAiPages /\ hasAiAgentWidget(page) THEN "drop"
    ELSE PatternLoop(options.excludePatterns, 1, Str_page, page.identifier, Undefined)

\* Array.prototype.filter, from element i on, given what the callback does
\* on each element: the elements it keeps, in order; the call throws when
\* the callback throws on some element
RECURSIVE ArrayFilter(_, _, _)
ArrayFilter(list, i, verdicts) ==
    IF i > Len(list) THEN [threw |-> FALSE, value |-> <<>>]
    ELSE IF verdicts[i] = "throw" THEN [threw |-> TRUE, value |-> <<>>]
    ELSE LET rest == ArrayFilter(list, i + 1, verdicts)
         IN  IF rest.threw THEN rest
             ELSE IF verdicts[i] = "keep"
             THEN [threw |-> FALSE, value |-> <<list[i]>> \o rest.value]
             ELSE rest

filterIntegrations(list, options) ==
    ArrayFilter(list, 1, [i \in 1..Len(list) |-> integrationCallback(list[i], options)])

filterBlueprints(list, options) ==
    ArrayFilter(list, 1, [i \in 1..Len(list) |-> blueprintCallback(list[i], options)])

\* variant: the scan starts at the second element
filterPages_FromSecond(list, options) ==
    ArrayFilter(list, 2, [i \in 1..Len(list) |-> pageCallback(list[i], options)])

filterPages(list, options) ==
    ArrayFilter(list, 1, [i \in 1..Len(list) |-> pageCallback(list[i], options)])

-----------------------------------------------------------------------------
(* Bounds *)

\* longest glob of the enumerated exclude patterns
MaxGlobLen == 2
\* longest enumerated identifier handed to matchesExcludePattern
MaxIdLen == 2
\* longest resource list handed to a filter
MaxFilterLen == 2
\* longest excludePatterns list
MaxPatterns == 2
\* longest page or blueprint list handed to an auto-fixer
MaxFixLen == 2
\* longest blueprint list handed to buildDependencyGraph
MaxGraphLen == 3
\* longest page list handed to detectMigrationWarnings
MaxDetectLen == 3

-----------------------------------------------------------------------------
(* Values of the variables a run does not use *)

NoOptions == [excludeGithubIntegrations |-> FALSE, excludeSystemBlueprints |-> FALSE,
              excludeAiPages |-> FALSE, excludePatterns |-> <<>>]
NoResult == [called |-> FALSE]

\* the AutoFixResult both fixers start from
NoFixes == [entityPageTypesFixed |-> <<>>, relationTitlesFixed |-> <<>>,
            pageOrderingFixed |-> <<>>]

\* the MigrationWarnings detectMigrationWarnings starts from
NoWarnings == [githubIntegrations |-> <<>>, systemBlueprints |-> <<>>,
               aiAgentPages |-> <<>>, pageOrdering |-> <<>>, relationTitles |-> <<>>,
               automationTriggers |-> <<>>, entityPageTypes |-> <<>>]

NoCounts == [blueprints |-> 0, actions |-> 0, pages |-> 0, integrations |-> 0,
             scorecards |-> 0, webhooks |-> 0, folders |-> 0, entities |-> 0]

NoHeap == <<>>

IdleMatchInputs ==
    /\ pattern = <<>>
    /\ resourceType = <<>>
    /\ identifier = <<>>
    /\ subType = Undefined

IdleUnitInputs == humanizeKey = <<>>

NoCliOptions ==
    [exportEntitiesForBlueprints |-> <<>>, migrationMode |-> FALSE, autoFix |-> FALSE,
     generateFixScript |-> FALSE, report |-> FALSE, terraform |-> FALSE]

NoEnv == [PORT_CLIENT_ID |-> Undefined, PORT_CLIENT_SECRET |-> Undefined,
          PORT_BEARER_TOKEN |-> Undefined]

IdleRunInputs ==
    /\ scorecards = <<>> /\ webhooks = <<>> /\ folders = <<>> /\ allEntities = <<>>
    /\ cliOptions = NoCliOptions
    /\ processEnv = NoEnv

IdleListInputs ==
    /\ integrations = <<>> /\ blueprints = <<>> /\ pages = <<>> /\ actions = <<>>
    /\ filterOptions = NoOptions
    /\ importedPageIds = {}

IdleReportInputs ==
    /\ reportWarnings = NoWarnings
    /\ reportAutoFixes = NoFixes
    /\ reportCounts = NoCounts
    /\ reportDependencies = <<>>
    /\ reportClientId = Undefined
    /\ reportApiUrl = Undefined

-----------------------------------------------------------------------------
(* Runs of matchesExcludePattern *)

Str_Page == <<"P","a","g","e">>
Str_pag == <<"p","a","g">>

\* the examples of the documentation
Pat_GitHubStar ==
    Str_integration \o <<":">> \o <<"G","i","t","H","u","b","-","*">>
Pat_PageUnderscoreStar == Str_page \o <<":">> \o <<"_","*">>
Id_GitHubApp1 == <<"G","i","t","H","u","b","-","A","p","p","-","1">>
Id_gitlabApp == <<"g","i","t","l","a","b","-","a","p","p">>
Id_aiAgents == <<"_","a","i","_","a","g","e","n","t","s">>

GlobChars == {"a", "B", "*", "?", "_", ".", ":"}
IdChars == {"a", "b", "_", "?"}

MatchGlobs == SeqsUpTo(GlobChars, MaxGlobLen)

MatchPatterns ==
    {pre \o <<":">> \o g :
        pre \in {Str_page, Str_Page, Str_pag, Str_blueprint, Str_integration},
        g \in MatchGlobs}
    \cup MatchGlobs
    \cup {Pat_GitHubStar, Pat_PageUnderscoreStar}

MatchIdentifiers ==
    (SeqsUpTo(IdChars, MaxIdLen) \ {<<>>}) \cup {Id_GitHubApp1, Id_gitlabApp, Id_aiAgents}

\* the three call sites: only filterIntegrations passes a subType
MatchCalls ==
    {<<Str_integration, t>> : t \in {Str_github, <<"a","B">>}}
    \cup {<<Str_blueprint, Undefined>>, <<Str_page, Undefined>>}

InitMatch ==
    /\ pc = "start"
    /\ fn = "matchesExcludePattern"
    /\ pattern \in MatchPatterns
    /\ \E call \in MatchCalls : resourceType = call[1] /\ subType = call[2]
    /\ identifier \in MatchIdentifiers
    /\ integrations = <<>> /\ blueprints = <<>> /\ pages = <<>> /\ actions = <<>>
    /\ filterOptions = NoOptions
    /\ importedPageIds = {}
    /\ IdleUnitInputs /\ IdleReportInputs
    /\ IdleRunInputs
    /\ heap = NoHeap
    /\ out = NoResult /\ out2 = NoResult

MatchesExcludePattern ==
    /\ pc = "start"
    /\ fn = "matchesExcludePattern"
    /\ out' = matchesExcludePattern(pattern, resourceType, identifier, subType)
    /\ pc' = "once"
    /\ UNCHANGED <<fn, inputs, heap, out2>>

NextMatch == MatchesExcludePattern

SpecMatch == InitMatch /\ [][NextMatch]_vars

\* The glob semantics the documentation states: * matches any sequence of
\* characters, every other character matches itself, ignoring case.
RECURSIVE GlobMatches(_, _)
GlobMatches(g, s) ==
    IF g = <<>> THEN s = <<>>
    ELSE IF Head(g) = "*"
    THEN GlobMatches(Tail(g), s) \/ (s # <<>> /\ GlobMatches(g, Tail(s)))
    ELSE /\ s # <<>>
         /\ CharToLower(Head(g)) = CharToLower(Head(s))
         /\ GlobMatches(Tail(g), Tail(s))

ColonCount(pat) == Cardinality({i \in 1..Len(pat) : pat[i] = ":"})

BeforeColon(pat) ==
    LET c == CHOOSE i \in 1..Len(pat) : pat[i] = ":" IN SubSeq(pat, 1, c - 1)

AfterColon(pat) ==
    LET c == CHOOSE i \in 1..Len(pat) : pat[i] = ":" IN SubSeq(pat, c + 1, Len(pat))

DocumentedMatch(pat, rType, ident, sub) ==
    /\ ColonCount(pat) = 1
    /\ toLowerCase(BeforeColon(pat)) = toLowerCase(rType)
    /\ \/ GlobMatches(AfterColon(pat), ident)
       \/ /\ rType = Str_integration
          /\ sub # Undefined
          /\ GlobMatches(AfterColon(pat), sub)

MatchDone == fn = "matchesExcludePattern" /\ pc = "once"

\* C8: matchesExcludePattern returns true exactly when the pattern has one
\* colon, its kind equals the resource kind ignoring case, and its glob (* any
\* sequence, every other character itself) matches the whole identifier or,
\* for an integration, the whole integrationType; it never raises.
C8_ExcludePatternIsGlob ==
    MatchDone =>
        /\ ~out.threw
        /\ out.value = DocumentedMatch(pattern, resourceType, identifier, subType)

-----------------------------------------------------------------------------
(* Runs of the three filters: apply once, then apply to the output *)

Id_a == <<"a">>
Id_ab == <<"a","b">>
Id_zz == <<"z","z">>
Id_sysAi == <<"_","a","i">>
Id_virtual == <<"$","h">>
Id_user == <<"_","u","s","e","r">>

AiAgentObject == [form |-> "object", type |-> "ai-agent", agentIdentifier |-> Undefined]
TableObject == [form |-> "object", type |-> "table", agentIdentifier |-> Undefined]

FilterPagePool ==
    { [identifier |-> Id_sysAi, type |-> "entity", widgets |-> <<AiAgentObject>>],
      [identifier |-> Id_virtual, type |-> "dashboard", after |-> Id_zz],
      [identifier |-> Id_ab, type |-> "entity", after |-> Id_sysAi,
       widgets |-> <<TableObject, AiAgentObject>>],
      [identifier |-> Id_a, type |-> "dashboard", after |-> Null] }

FilterBlueprintPool ==
    { [identifier |-> Id_user, title |-> "User",
       relations |-> <<[key |-> <<"m">>, target |-> Id_user, title |-> Null]>>],
      [identifier |-> Id_ab, title |-> "Service",
       relations |-> <<[key |-> <<"o">>, target |-> Id_a]>>],
      [identifier |-> Id_a, title |-> "Team"] }

FilterIntegrationPool ==
    { [identifier |-> <<"g","h">>, integrationType |-> <<"G","i","t","H","u","b">>,
       installationId |-> <<"1">>],
      [identifier |-> Id_a, integrationType |-> Str_github],
      [identifier |-> <<"_","x">>, integrationType |-> <<"k","8","s">>] }

Capitalized(kind) == <<CharToUpper(Head(kind))>> \o Tail(kind)

\* patterns aimed at one kind: everything, the system prefix under a
\* capitalized kind, a glob with ?, and a glob that new RegExp rejects
FilterPatternPool(kind) ==
    { kind \o <<":", "*">>,
      Capitalized(kind) \o <<":", "_", "*">>,
      kind \o <<":", "a", "?">>,
      kind \o <<":", "?">> }

FilterOptionsOver(pool) ==
    [excludeGithubIntegrations : BOOLEAN, excludeSystemBlueprints : BOOLEAN,
     excludeAiPages : BOOLEAN, excludePatterns : SeqsUpTo(pool, MaxPatterns)]

FilterFns == {"filterIntegrations", "filterBlueprints", "filterPages"}

InitFilter ==
    /\ pc = "start"
    /\ fn \in FilterFns
    /\ integrations \in IF fn = "filterIntegrations"
                        THEN SeqsUpTo(FilterIntegrationPool, MaxFilterLen) ELSE {<<>>}
    /\ blueprints \in IF fn = "filterBlueprints"
                      THEN SeqsUpTo(FilterBlueprintPool, MaxFilterLen) ELSE {<<>>}
    /\ pages \in IF fn = "filterPages"
                 THEN SeqsUpTo(FilterPagePool, MaxFilterLen) ELSE {<<>>}
    /\ filterOptions \in
         CASE fn = "filterIntegrations" ->
                FilterOptionsOver(FilterPatternPool(Str_integration))
           [] fn = "filterBlueprints" ->
                FilterOptionsOver(FilterPatternPool(Str_blueprint))
           [] fn = "filterPages" ->
                FilterOptionsOver(FilterPatternPool(Str_page))
    /\ actions = <<>>
    /\ importedPageIds = {}
    /\ IdleMatchInputs
    /\ IdleUnitInputs /\ IdleReportInputs
    /\ IdleRunInputs
    /\ heap = NoHeap
    /\ out = NoResult /\ out2 = NoResult

\* In each run the second application is made to the output of the first;
\* when the first threw, so does the composition.

FilterIntegrations ==
    /\ fn = "filterIntegrations"
    /\ pc \in {"start", "once"}
    /\ IF pc = "start"
       THEN /\ out' = filterIntegrations(integrations, filterOptions)
            /\ pc' = "once"
            /\ UNCHANGED out2
       ELSE /\ out2' = IF out.threw THEN out ELSE filterIntegrations(out.value, filterOptions)
            /\ pc' = "twice"
            /\ UNCHANGED out
    /\ UNCHANGED <<fn, inputs, heap>>

FilterBlueprints ==
    /\ fn = "filterBlueprints"
    /\ pc \in {"start", "once"}
    /\ IF pc = "start"
       THEN /\ out' = filterBlueprints(blueprints, filterOptions)
            /\ pc' = "once"
            /\ UNCHANGED out2
       ELSE /\ out2' = IF out.threw THEN out ELSE filterBlueprints(out.value, filterOptions)
            /\ pc' = "twice"
            /\ UNCHANGED out
    /\ UNCHANGED <<fn, inputs, heap>>

FilterPages ==
    /\ fn = "filterPages"
    /\ pc \in {"start", "once"}
    /\ IF pc = "start"
       THEN /\ out' = filterPages(pages, filterOptions)
            /\ pc' = "once"
            /\ UNCHANGED out2
       ELSE /\ out2' = IF out.threw THEN out ELSE filterPages(out.value, filterOptions)
            /\ pc' = "twice"
            /\ UNCHANGED out
    /\ UNCHANGED <<fn, inputs, heap>>

NextFilter == FilterIntegrations \/ FilterBlueprints \/ FilterPages

SpecFilter == InitFilter /\ [][NextFilter]_vars

\* the list the run's filter was given
FilterInput ==
    CASE fn = "filterIntegrations" -> integrations
      [] fn = "filterBlueprints" -> blueprints
      [] fn = "filterPages" -> pages

FilterReturned == fn \in FilterFns /\ pc \in {"once", "twice"} /\ ~out.threw

\* C1: filtering the output of a filter again, with the same options, gives
\* that output again.
C1_FilterIdempotent ==
    (fn \in FilterFns /\ pc = "twice") => out2 = out

\* C1 witness: a second filterPages pass over an output that lost an element
\* and kept one
C1_Witness ==
    /\ fn = "filterPages" /\ pc = "twice" /\ ~out.threw
    /\ Len(out.value) = 1 /\ Len(pages) = 2
    /\ filterOptions.excludePatterns # <<>>

Count(e, list) == Cardinality({i \in 1..Len(list) : list[i] = e})

\* sub is list with some elements left out, the others in their order
IsSubsequence(sub, list) ==
    \E f \in [1..Len(sub) -> 1..Len(list)] :
        /\ \A i, j \in 1..Len(sub) : i < j => f[i] < f[j]
        /\ \A i \in 1..Len(sub) : list[f[i]] = sub[i]

\* some exclude pattern matches the resource
PatternHits(rType, ident, sub) ==
    \E i \in 1..Len(filterOptions.excludePatterns) :
        matchesExcludePattern(filterOptions.excludePatterns[i], rType, ident, sub).value

\* a category flag of the element's kind, or an exclude pattern, matches it
Excludable(e) ==
    CASE fn = "filterIntegrations" ->
           \/ /\ filterOptions.excludeGithubIntegrations
              /\ toLowerCase(e.integrationType) = Str_github
           \/ PatternHits(Str_integration, e.identifier, e.integrationType)
      [] fn = "filterBlueprints" ->
           \/ filterOptions.excludeSystemBlueprints /\ startsWith(e.identifier, "_")
           \/ PatternHits(Str_blueprint, e.identifier, Undefined)
      [] fn = "filterPages" ->
           \/ filterOptions.excludeAiPages /\ hasAiAgentWidget(e)
           \/ PatternHits(Str_page, e.identifier, Undefined)

FlagFlipped == [filterOptions EXCEPT !.excludeSystemBlueprints = ~@]

\* C9: filterPages returns every page whose identifier starts with _ or $,
\* unchanged, whatever the options; and excludeSystemBlueprints changes
\* nothing in what filterPages and filterIntegrations return.
C9_SystemPagesBypass ==
    /\ (fn = "filterPages" /\ FilterReturned) =>
          \A i \in 1..Len(pages) :
              isSystemPage(pages[i]) => Count(pages[i], out.value) = Count(pages[i], pages)
    /\ (fn = "filterPages" /\ pc = "once") => out = filterPages(pages, FlagFlipped)
    /\ (fn = "filterIntegrations" /\ pc = "once") =>
          out = filterIntegrations(integrations, FlagFlipped)

\* C9 witness: filterPages ran with excludeAiPages, excludeSystemBlueprints and
\* the pattern page:* over a system page with an ai-agent widget, and kept it
C9_Witness ==
    /\ fn = "filterPages" /\ pc = "once" /\ ~out.threw
    /\ filterOptions.excludeAiPages /\ filterOptions.excludeSystemBlueprints
    /\ Str_page \o <<":", "*">> \in Range(filterOptions.excludePatterns)
    /\ \E i \in 1..Len(pages) :
          /\ pages[i].identifier = Id_sysAi
          /\ hasAiAgentWidget(pages[i])
          /\ pages[i] \in Range(out.value)
    /\ Len(out.value) < Len(pages)

-----------------------------------------------------------------------------
(* humanizeRelationKey *)

\* variant: the rest of the word is not lower-cased
CapitalizeWord_KeepsRest(word) ==
    IF word = <<>> THEN <<>>
    ELSE <<CharToUpper(Head(word))>> \o Tail(word)

\* word.charAt(0).toUpperCase() + word.slice(1).toLowerCase()
CapitalizeWord(word) ==
    IF word = <<>> THEN <<>>
    ELSE <<CharToUpper(Head(word))>> \o toLowerCase(Tail(word))

\* Array.prototype.join(' ')
RECURSIVE JoinWithSpace(_)
JoinWithSpace(words) ==
    IF words = <<>> THEN <<>>
    ELSE IF Len(words) = 1 THEN words[1]
    ELSE words[1] \o <<" ">> \o JoinWithSpace(Tail(words))

humanizeRelationKey(key) ==
    LET words == split(key, {"-", "_"})
    IN  JoinWithSpace([i \in 1..Len(words) |-> CapitalizeWord(words[i])])

-----------------------------------------------------------------------------
(* applyPageAutoFixes *)

\* page.type === 'entity'
entityTypeNeedsFix(page) == page.type = "entity"

\* variant: the test for a set after is left out
pageOrderingNeedsFix_NoTruthTest(page, ids) == Get(page, "after") \notin ids

\* page.after && !importedPageIds.has(page.after)
pageOrderingNeedsFix(page, ids) ==
    Truthy(Get(page, "after")) /\ Get(page, "after") \notin ids

\* variant: the fixes are recorded but the copy is returned as it was
fixedPage_Untouched(page, ids) == page

\* the callback of pages.map: the page returned for one input page
fixedPage(page, ids) ==
    IF isSystemPage(page) THEN page
    ELSE LET typed == IF entityTypeNeedsFix(page)
                      THEN [page EXCEPT !.type = "blueprint-entities"]
                      ELSE page
         IN  IF pageOrderingNeedsFix(page, ids)
             THEN With(typed, "after", Null)
             ELSE typed

\* pages.map with its pushes onto the two fix lists, from page i on
RECURSIVE PageFixesFrom(_, _, _, _)
PageFixesFrom(list, i, ids, acc) ==
    IF i > Len(list) THEN acc
    ELSE LET page == list[i]
             skip == isSystemPage(page)
             typeFix == ~skip /\ entityTypeNeedsFix(page)
             orderFix == ~skip /\ pageOrderingNeedsFix(page, ids)
         IN  PageFixesFrom(list, i + 1, ids,
               [pages |-> Append(acc.pages, fixedPage(page, ids)),
                fixes |->
                  [entityPageTypesFixed |->
                     IF typeFix THEN Append(acc.fixes.entityPageTypesFixed, page.identifier)
                     ELSE acc.fixes.entityPageTypesFixed,
                   relationTitlesFixed |-> acc.fixes.relationTitlesFixed,
                   pageOrderingFixed |->
                     IF orderFix THEN Append(acc.fixes.pageOrderingFixed, page.identifier)
                     ELSE acc.fixes.pageOrderingFixed]])

applyPageAutoFixes(list, ids) ==
    PageFixesFrom(list, 1, ids, [pages |-> <<>>, fixes |-> NoFixes])

-----------------------------------------------------------------------------
(* applyBlueprintAutoFixes.  relations is the sequence of the object's     *)
(* entries, [key, target, title, ...], in Object.entries order.            *)

\* variant: the loose test == null, which an absent title passes too
titleIsNull_Loose(relation) == ~Truthy(Get(relation, "title")) /\ Get(relation, "title") # <<>>

\* relation.title === null
titleIsNull(relation) == Has(relation, "title") /\ relation.title = Null

\* the forEach over Object.entries(blueprint.relations), from entry i on
RECURSIVE RelationFixesFrom(_, _, _, _)
RelationFixesFrom(blueprint, i, fixedRelations, fixed) ==
    IF i > Len(blueprint.relations)
    THEN [fixedRelations |-> fixedRelations, fixed |-> fixed]
    ELSE LET relation == blueprint.relations[i]
             newTitle == humanizeRelationKey(relation.key)
         IN  IF titleIsNull(relation)
             THEN RelationFixesFrom(blueprint, i + 1,
                    Append(fixedRelations, With(relation, "title", newTitle)),
                    Append(fixed, [blueprint |-> blueprint.identifier,
                                   relation |-> relation.key,
                                   newTitle |-> newTitle]))
             ELSE RelationFixesFrom(blueprint, i + 1,
                    Append(fixedRelations, relation), fixed)

\* blueprints.map with its pushes onto relationTitlesFixed, from blueprint i on
RECURSIVE BlueprintFixesFrom(_, _, _)
BlueprintFixesFrom(list, i, acc) ==
    IF i > Len(list) THEN acc
    ELSE LET blueprint == list[i]
         IN  IF ~Has(blueprint, "relations")
             THEN BlueprintFixesFrom(list, i + 1,
                    [acc EXCEPT !.blueprints = Append(@, blueprint)])
             ELSE LET r == RelationFixesFrom(blueprint, 1, <<>>, <<>>)
                      hasChanges == Len(r.fixed) > 0
                  IN  BlueprintFixesFrom(list, i + 1,
                        [blueprints |->
                           Append(acc.blueprints,
                                  IF hasChanges
                                  THEN [blueprint EXCEPT !.relations = r.fixedRelations]
                                  ELSE blueprint),
                         fixes |-> [acc.fixes EXCEPT
                                      !.relationTitlesFixed = @ \o r.fixed]])

applyBlueprintAutoFixes(list) ==
    BlueprintFixesFrom(list, 1, [blueprints |-> <<>>, fixes |-> NoFixes])

-----------------------------------------------------------------------------
(* Runs of the two auto-fixers: apply once, then apply to the output *)

Id_b == <<"b">>
Key_owner_team == <<"o","w","n","e","r","_","t","e","a","m">>
Key_onCall == <<"o","n","-","c","a","l","l">>
Key_x == <<"x">>
Title_X == <<"X">>

FixPagePool ==
    { [identifier |-> Id_sysAi, type |-> "entity", after |-> Id_zz, title |-> "AI"],
      [identifier |-> Id_virtual, type |-> "entity", after |-> Id_zz],
      [identifier |-> Id_a, type |-> "entity", after |-> Id_zz,
       widgets |-> <<TableObject>>],
      [identifier |-> Id_ab, type |-> "entity", after |-> Id_a, title |-> "AB"],
      [identifier |-> Id_a, type |-> "dashboard"],
      [identifier |-> Id_ab, type |-> "dashboard", after |-> Null],
      [identifier |-> Id_b, type |-> "Entity", after |-> <<>>],
      [identifier |-> Id_b, type |-> "blueprint-entities", after |-> Id_sysAi] }

FixIdSets == SUBSET {Id_a, Id_zz, Id_sysAi}

FixBlueprintPool ==
    { [identifier |-> Id_user, title |-> "User",
       relations |-> <<[key |-> Key_x, target |-> Id_user, title |-> Null]>>],
      [identifier |-> Id_ab, title |-> "Service",
       relations |-> <<[key |-> Key_owner_team, target |-> Id_a, title |-> Null,
                        many |-> FALSE],
                       [key |-> Key_x, target |-> Id_a, title |-> Title_X],
                       [key |-> Key_onCall, target |-> Id_b, title |-> Null]>>],
      [identifier |-> Id_a, title |-> "Team"],
      [identifier |-> Id_b, title |-> "Rota",
       relations |-> <<[key |-> Key_onCall, target |-> Id_a],
                       [key |-> Key_x, target |-> Id_ab, title |-> <<>>]>>],
      [identifier |-> Id_zz, title |-> "Empty", relations |-> <<>>] }

FixFns == {"applyPageAutoFixes", "applyBlueprintAutoFixes"}

InitFix ==
    /\ pc = "start"
    /\ fn \in FixFns
    /\ pages \in IF fn = "applyPageAutoFixes"
                 THEN SeqsUpTo(FixPagePool, MaxFixLen) ELSE {<<>>}
    /\ importedPageIds \in IF fn = "applyPageAutoFixes" THEN FixIdSets ELSE {{}}
    /\ blueprints \in IF fn = "applyBlueprintAutoFixes"
                      THEN SeqsUpTo(FixBlueprintPool, MaxFixLen) ELSE {<<>>}
    /\ integrations = <<>> /\ actions = <<>>
    /\ filterOptions = NoOptions
    /\ IdleMatchInputs
    /\ IdleUnitInputs /\ IdleReportInputs
    /\ IdleRunInputs
    /\ heap = NoHeap
    /\ out = NoResult /\ out2 = NoResult

ApplyPageAutoFixes ==
    /\ fn = "applyPageAutoFixes"
    /\ pc \in {"start", "once"}
    /\ IF pc = "start"
       THEN /\ out' = applyPageAutoFixes(pages, importedPageIds)
            /\ pc' = "once"
            /\ UNCHANGED out2
       ELSE /\ out2' = applyPageAutoFixes(out.pages, importedPageIds)
            /\ pc' = "twice"
            /\ UNCHANGED out
    /\ UNCHANGED <<fn, inputs, heap>>

ApplyBlueprintAutoFixes ==
    /\ fn = "applyBlueprintAutoFixes"
    /\ pc \in {"start", "once"}
    /\ IF pc = "start"
       THEN /\ out' = applyBlueprintAutoFixes(blueprints)
            /\ pc' = "once"
            /\ UNCHANGED out2
       ELSE /\ out2' = applyBlueprintAutoFixes(out.blueprints)
            /\ pc' = "twice"
            /\ UNCHANGED out
    /\ UNCHANGED <<fn, inputs, heap>>

NextFix == ApplyPageAutoFixes \/ ApplyBlueprintAutoFixes

SpecFix == InitFix /\ [][NextFix]_vars

PagesFixed == fn = "applyPageAutoFixes" /\ pc \in {"once", "twice"}
BlueprintsFixed == fn = "applyBlueprintAutoFixes" /\ pc \in {"once", "twice"}

\* C2: a fixer applied to its own output returns that output and reports no
\* fix.
C2_FixersIdempotent ==
    /\ (fn = "applyPageAutoFixes" /\ pc = "twice") =>
          /\ out2.pages = out.pages
          /\ out2.fixes.entityPageTypesFixed = <<>>
          /\ out2.fixes.pageOrderingFixed = <<>>
    /\ (fn = "applyBlueprintAutoFixes" /\ pc = "twice") =>
          /\ out2.blueprints = out.blueprints
          /\ out2.fixes.relationTitlesFixed = <<>>

\* C2 witness: a second page pass after a first pass that fixed a type and an
\* ordering
C2_Witness ==
    /\ fn = "applyPageAutoFixes" /\ pc = "twice"
    /\ Len(out.fixes.entityPageTypesFixed) > 0
    /\ Len(out.fixes.pageOrderingFixed) > 0
    /\ out.pages # pages

\* C3: no identifier starting with _ is reported in entityPageTypesFixed, and
\* no relationTitlesFixed entry names a blueprint starting with _.
C3_SystemNeverFixed ==
    /\ PagesFixed =>
          \A i \in 1..Len(out.fixes.entityPageTypesFixed) :
              ~startsWith(out.fixes.entityPageTypesFixed[i], "_")
    /\ BlueprintsFixed =>
          \A i \in 1..Len(out.fixes.relationTitlesFixed) :
              ~startsWith(out.fixes.relationTitlesFixed[i].blueprint, "_")

\* C3 holds of the page fixer alone
C3_PagePart ==
    PagesFixed =>
        \A i \in 1..Len(out.fixes.entityPageTypesFixed) :
            ~startsWith(out.fixes.entityPageTypesFixed[i], "_")

\* a page that is neither system-owned nor virtual
UserPage(p) == ~startsWith(p.identifier, "_") /\ ~startsWith(p.identifier, "$")

\* the page's after is set (neither absent, null nor empty) and not in ids
AfterDangles(p, ids) ==
    /\ "after" \in DOMAIN p
    /\ p.after \notin {Null, <<>>}
    /\ p.after \notin ids

\* the identifiers of the elements of list that pass Test, in list order
IdsWhere(list, Test(_)) ==
    LET sel == SelectSeq(list, Test) IN [i \in 1..Len(sel) |-> sel[i].identifier]

\* C4: applyPageAutoFixes returns the pages in their order; a page that is
\* neither system-owned nor virtual gets type "blueprint-entities" if its type
\* was "entity", after = null if its after was set and not in the imported
\* ids, and keeps every other field; the two fix lists name exactly the
\* rewritten pages, in input order.
C4_PageFixerRule ==
    (fn = "applyPageAutoFixes" /\ pc = "once") =>
        /\ Len(out.pages) = Len(pages)
        /\ \A i \in 1..Len(pages) :
              out.pages[i].identifier = pages[i].identifier
        /\ \A i \in 1..Len(pages) :
              LET p == pages[i]
                  q == out.pages[i]
              IN  UserPage(p) =>
                    /\ q.type = IF p.type = "entity" THEN "blueprint-entities" ELSE p.type
                    /\ IF AfterDangles(p, importedPageIds)
                       THEN "after" \in DOMAIN q /\ q.after = Null
                       ELSE /\ ("after" \in DOMAIN q) = ("after" \in DOMAIN p)
                            /\ "after" \in DOMAIN p => q.after = p.after
                    /\ DOMAIN q \ {"after"} = DOMAIN p \ {"after"}
                    /\ \A f \in DOMAIN p \ {"type", "after"} : q[f] = p[f]
        /\ out.fixes.entityPageTypesFixed =
              IdsWhere(pages, LAMBDA p : UserPage(p) /\ p.type = "entity")
        /\ out.fixes.pageOrderingFixed =
              IdsWhere(pages, LAMBDA p : UserPage(p) /\ AfterDangles(p, importedPageIds))

\* C4 witness: one page had both fields rewritten and another kept an after
\* that is among the imported ids
C4_Witness ==
    /\ fn = "applyPageAutoFixes" /\ pc = "once"
    /\ \E i \in 1..Len(pages) :
          /\ UserPage(pages[i]) /\ pages[i].type = "entity"
          /\ AfterDangles(pages[i], importedPageIds)
          /\ out.pages[i].type = "blueprint-entities" /\ out.pages[i].after = Null
    /\ \E j \in 1..Len(pages) :
          /\ UserPage(pages[j]) /\ "after" \in DOMAIN pages[j]
          /\ pages[j].after \in importedPageIds
          /\ out.pages[j].after = pages[j].after

NullTitle(r) == "title" \in DOMAIN r /\ r.title = Null

\* the blueprint with each explicitly null title replaced by the humanized key
TitlesFilled(bp) ==
    IF "relations" \in DOMAIN bp
    THEN [bp EXCEPT !.relations =
            [k \in 1..Len(@) |->
                IF NullTitle(@[k])
                THEN With(@[k], "title", humanizeRelationKey(@[k].key))
                ELSE @[k]]]
    ELSE bp

\* one entry per null title of the blueprint, in relation order
TitleFixesOf(bp) ==
    IF "relations" \in DOMAIN bp
    THEN LET nulls == SelectSeq(bp.relations, NullTitle)
         IN  [k \in 1..Len(nulls) |->
                [blueprint |-> bp.identifier, relation |-> nulls[k].key,
                 newTitle |-> humanizeRelationKey(nulls[k].key)]]
    ELSE <<>>

RECURSIVE TitleFixesOfAll(_)
TitleFixesOfAll(list) ==
    IF list = <<>> THEN <<>> ELSE TitleFixesOf(Head(list)) \o TitleFixesOfAll(Tail(list))

Title_OwnerTeam == <<"O","w","n","e","r"," ","T","e","a","m">>

\* C5: applyBlueprintAutoFixes returns the blueprints in their order, each
\* with every explicitly null relation title replaced by the humanized
\* relation key (owner_team gives "Owner Team") and nothing else changed, and
\* relationTitlesFixed has one entry per replaced title, in blueprint order
\* then relation order.
C5_BlueprintFixerRule ==
    (fn = "applyBlueprintAutoFixes" /\ pc = "once") =>
        /\ Len(out.blueprints) = Len(blueprints)
        /\ \A i \in 1..Len(blueprints) : out.blueprints[i] = TitlesFilled(blueprints[i])
        /\ out.fixes.relationTitlesFixed = TitleFixesOfAll(blueprints)
        /\ \A i \in 1..Len(out.fixes.relationTitlesFixed) :
              out.fixes.relationTitlesFixed[i].relation = Key_owner_team
                  => out.fixes.relationTitlesFixed[i].newTitle = Title_OwnerTeam
        /\ \A i \in 1..Len(blueprints) :
              TitleFixesOf(blueprints[i]) = <<>> => out.blueprints[i] = blueprints[i]

\* C5 witness: a blueprint with null, absent and non-null titles was fixed
C5_Witness ==
    /\ fn = "applyBlueprintAutoFixes" /\ pc = "once"
    /\ \E i \in 1..Len(blueprints) :
          /\ blueprints[i].identifier = Id_ab
          /\ out.blueprints[i].relations[1].title = Title_OwnerTeam
          /\ out.blueprints[i].relations[2] = blueprints[i].relations[2]
    /\ \E j \in 1..Len(blueprints) :
          /\ blueprints[j].identifier = Id_b
          /\ out.blueprints[j] = blueprints[j]
    /\ Len(out.fixes.relationTitlesFixed) = 2

-----------------------------------------------------------------------------
(* buildDependencyGraph *)

\* variant: a relation to the blueprint itself counts as a dependency
targetQualifies_AllowsSelf(relation, blueprint, blueprintIds, dependsOn) ==
    /\ relation.target \in blueprintIds
    /\ ~isSystemBlueprint(relation.target)
    /\ relation.target \notin Range(dependsOn)

\* the two nested tests that guard dependsOn.push
targetQualifies(relation, blueprint, blueprintIds, dependsOn) ==
    /\ relation.target \in blueprintIds
    /\ ~isSystemBlueprint(relation.target)
    /\ relation.target \notin Range(dependsOn)
    /\ relation.target # blueprint.identifier

\* the forEach over Object.values(blueprint.relations), from relation i on
RECURSIVE DependsOnFrom(_, _, _, _)
DependsOnFrom(blueprint, i, blueprintIds, dependsOn) ==
    IF i > Len(blueprint.relations) THEN dependsOn
    ELSE DependsOnFrom(blueprint, i + 1, blueprintIds,
           IF targetQualifies(blueprint.relations[i], blueprint, blueprintIds, dependsOn)
           THEN Append(dependsOn, blueprint.relations[i].target)
           ELSE dependsOn)

\* the forEach over blueprints, from blueprint i on
RECURSIVE DependenciesFrom(_, _, _, _)
DependenciesFrom(list, i, blueprintIds, dependencies) ==
    IF i > Len(list) THEN dependencies
    ELSE LET blueprint == list[i]
         IN  IF isSystemBlueprint(blueprint.identifier)
             THEN DependenciesFrom(list, i + 1, blueprintIds, dependencies)
             ELSE IF Has(blueprint, "relations") /\ Len(blueprint.relations) > 0
             THEN LET dependsOn == DependsOnFrom(blueprint, 1, blueprintIds, <<>>)
                  IN  DependenciesFrom(list, i + 1, blueprintIds,
                        IF Len(dependsOn) > 0
                        THEN Append(dependencies,
                                    [blueprint |-> blueprint.identifier,
                                     dependsOn |-> dependsOn])
                        ELSE dependencies)
             ELSE DependenciesFrom(list, i + 1, blueprintIds, dependencies)

buildDependencyGraph(list) ==
    DependenciesFrom(list, 1, {list[i].identifier : i \in 1..Len(list)}, <<>>)

-----------------------------------------------------------------------------
(* Runs of buildDependencyGraph *)

GraphBlueprintPool ==
    { [identifier |-> Id_user, title |-> "User",
       relations |-> <<[key |-> Key_x, target |-> Id_a]>>],
      [identifier |-> Id_a, title |-> "Team",
       relations |-> <<[key |-> <<"s">>, target |-> Id_a],
                       [key |-> <<"u">>, target |-> Id_user]>>],
      [identifier |-> Id_ab, title |-> "Service",
       relations |-> <<[key |-> <<"o">>, target |-> Id_a],
                       [key |-> <<"u">>, target |-> Id_user],
                       [key |-> <<"p">>, target |-> Id_a, title |-> Null],
                       [key |-> <<"q">>, target |-> Id_zz],
                       [key |-> <<"r">>, target |-> Id_b]>>],
      [identifier |-> Id_b, title |-> "Rota",
       relations |-> <<[key |-> Key_x, target |-> Id_ab],
                       [key |-> <<"s">>, target |-> Id_b]>>],
      [identifier |-> Id_zz, title |-> "Plain"] }

InitGraph ==
    /\ pc = "start"
    /\ fn = "buildDependencyGraph"
    /\ blueprints \in SeqsUpTo(GraphBlueprintPool, MaxGraphLen)
    /\ integrations = <<>> /\ pages = <<>> /\ actions = <<>>
    /\ filterOptions = NoOptions
    /\ importedPageIds = {}
    /\ IdleMatchInputs
    /\ IdleUnitInputs /\ IdleReportInputs
    /\ IdleRunInputs
    /\ heap = NoHeap
    /\ out = NoResult /\ out2 = NoResult

BuildDependencyGraph ==
    /\ pc = "start"
    /\ fn = "buildDependencyGraph"
    /\ out' = [dependencies |-> buildDependencyGraph(blueprints)]
    /\ pc' = "once"
    /\ UNCHANGED <<fn, inputs, heap, out2>>

NextGraph == BuildDependencyGraph

SpecGraph == InitGraph /\ [][NextGraph]_vars

BlueprintIdsOf(list) == {list[i].identifier : i \in 1..Len(list)}

\* the relation targets of bp that name a blueprint of list, are not
\* system-owned and are not bp itself, each at its first occurrence
QualifyingTargets(bp, list) ==
    IF "relations" \notin DOMAIN bp THEN <<>>
    ELSE LET rels == bp.relations
             Qualifies(k) ==
                 /\ rels[k].target \in BlueprintIdsOf(list)
                 /\ ~startsWith(rels[k].target, "_")
                 /\ rels[k].target # bp.identifier
                 /\ \A j \in 1..(k - 1) : rels[j].target # rels[k].target
             kept == SelectSeq([k \in 1..Len(rels) |-> k], Qualifies)
         IN  [m \in 1..Len(kept) |-> rels[kept[m]].target]

ExpectedDependencies(list) ==
    LET Emits(bp) == ~startsWith(bp.identifier, "_") /\ QualifyingTargets(bp, list) # <<>>
        emitting == SelectSeq(list, Emits)
    IN  [m \in 1..Len(emitting) |->
           [blueprint |-> emitting[m].identifier,
            dependsOn |-> QualifyingTargets(emitting[m], list)]]

GraphBuilt == fn = "buildDependencyGraph" /\ pc = "once"

\* C6: buildDependencyGraph emits, in input order, one entry per non-system
\* blueprint whose list of qualifying targets (targets that are blueprints of
\* the input, not system-owned, not the blueprint itself, first occurrences
\* only) is not empty; so no entry has an empty dependsOn, a self-loop, a
\* system-owned, unknown or repeated target.
C6_DependencyGraph ==
    GraphBuilt =>
        /\ out.dependencies = ExpectedDependencies(blueprints)
        /\ \A i \in 1..Len(out.dependencies) :
              LET e == out.dependencies[i]
              IN  /\ Len(e.dependsOn) > 0
                  /\ e.blueprint \notin Range(e.dependsOn)
                  /\ \A t \in Range(e.dependsOn) :
                        t \in BlueprintIdsOf(blueprints) /\ ~startsWith(t, "_")
                  /\ Cardinality(Range(e.dependsOn)) = Len(e.dependsOn)
        /\ \A i \in 1..Len(blueprints) :
              (/\ "relations" \in DOMAIN blueprints[i]
               /\ \A k \in 1..Len(blueprints[i].relations) :
                     blueprints[i].relations[k].target \in {blueprints[i].identifier, Id_user})
                 => \A j \in 1..Len(out.dependencies) :
                       out.dependencies[j].blueprint # blueprints[i].identifier

\* C6 witness: a blueprint relating only to itself and _user gave no entry,
\* and one with repeated, system, unknown and self targets gave its entry
C6_Witness ==
    /\ GraphBuilt
    /\ Len(blueprints) = 3
    /\ blueprints[1].identifier = Id_user
    /\ blueprints[2].identifier = Id_a
    /\ blueprints[3].identifier = Id_ab
    /\ out.dependencies = <<[blueprint |-> Id_ab, dependsOn |-> <<Id_a>>]>>

-----------------------------------------------------------------------------
(* detectMigrationWarnings.  A warning's message is its template and the   *)
(* values substituted into it.                                             *)

Warning(category, rType, id, text, args) ==
    [category |-> category, resourceType |-> rType, resourceId |-> id,
     message |-> [text |-> text, args |-> args]]

\* variant: every page identifier counts as imported
detectImportedPageIds_AllPages(list) == {list[i].identifier : i \in 1..Len(list)}

\* the set built first: identifiers of the pages terraform will manage
detectImportedPageIds(list) ==
    {list[i].identifier : i \in {j \in 1..Len(list) : ~isSystemPage(list[j])}}

\* Each category is a forEach with a guarded push: the warnings of the
\* elements that pass the test, in list order.

\* variant: the integration type is compared as written, without toLowerCase
githubIntegrationWarnings_CaseSensitive(list) ==
    LET hits == SelectSeq(list,
                  LAMBDA integration : integration.integrationType = Str_github)
    IN  [i \in 1..Len(hits) |->
           Warning("github-integration", "integration", hits[i].identifier,
                   "GitHub integration uses installation ID specific to source org",
                   <<hits[i].identifier>>)]

githubIntegrationWarnings(list) ==
    LET hits == SelectSeq(list,
                  LAMBDA integration :
                      toLowerCase(integration.integrationType) = Str_github)
    IN  [i \in 1..Len(hits) |->
           Warning("github-integration", "integration", hits[i].identifier,
                   "GitHub integration uses installation ID specific to source org",
                   <<hits[i].identifier>>)]

systemBlueprintWarnings(list) ==
    LET hits == SelectSeq(list, LAMBDA blueprint : isSystemBlueprint(blueprint.identifier))
    IN  [i \in 1..Len(hits) |->
           Warning("system-blueprint", "blueprint", hits[i].identifier,
                   "System blueprint cannot be created via Terraform",
                   <<hits[i].identifier>>)]

entityPageTypeWarnings(list) ==
    LET hits == SelectSeq(list, LAMBDA page : ~isSystemPage(page) /\ page.type = "entity")
    IN  [i \in 1..Len(hits) |->
           Warning("entity-page-type", "page", hits[i].identifier,
                   "Page has type entity (change to blueprint-entities)",
                   <<hits[i].identifier>>)]

aiAgentPageWarnings(list) ==
    LET hits == SelectSeq(list, LAMBDA page : ~isSystemPage(page) /\ hasAiAgentWidget(page))
    IN  [i \in 1..Len(hits) |->
           Warning("ai-agent-page", "page", hits[i].identifier,
                   "Page contains AI agent widget", <<hits[i].identifier>>)]

pageOrderingWarnings(list) ==
    LET importedIds == detectImportedPageIds(list)
        hits == SelectSeq(list,
                  LAMBDA page : /\ ~isSystemPage(page)
                                /\ Truthy(Get(page, "after"))
                                /\ Get(page, "after") \notin importedIds)
    IN  [i \in 1..Len(hits) |->
           Warning("page-ordering", "page", hits[i].identifier,
                   "Page references (not imported)",
                   <<hits[i].identifier, hits[i].after>>)]

\* variant: the resourceId is the relation name without the blueprint
relationTitleWarningsOf_KeyOnly(blueprint) ==
    IF ~Has(blueprint, "relations") THEN <<>>
    ELSE LET hits == SelectSeq(blueprint.relations, titleIsNull)
         IN  [i \in 1..Len(hits) |->
                Warning("relation-title", "blueprint", hits[i].key,
                        "Relation has null title", <<hits[i].key>>)]

\* the warnings of one blueprint's relations, in Object.entries order
relationTitleWarningsOf(blueprint) ==
    IF ~Has(blueprint, "relations") THEN <<>>
    ELSE LET hits == SelectSeq(blueprint.relations, titleIsNull)
         IN  [i \in 1..Len(hits) |->
                Warning("relation-title", "blueprint",
                        blueprint.identifier \o <<".">> \o hits[i].key,
                        "Relation has null title",
                        <<blueprint.identifier \o <<".">> \o hits[i].key>>)]

RECURSIVE relationTitleWarnings(_)
relationTitleWarnings(list) ==
    IF list = <<>> THEN <<>>
    ELSE relationTitleWarningsOf(Head(list)) \o relationTitleWarnings(Tail(list))

automationTriggerWarnings(list) ==
    LET hits == SelectSeq(list,
                  LAMBDA action : /\ Has(action, "automation_trigger")
                                  /\ action.automation_trigger # Null)
    IN  [i \in 1..Len(hits) |->
           Warning("automation-trigger", "action", hits[i].identifier,
                   "Action has automation trigger", <<hits[i].identifier>>)]

detectMigrationWarnings(ints, bps, pgs, acts) ==
    [githubIntegrations |-> githubIntegrationWarnings(ints),
     systemBlueprints |-> systemBlueprintWarnings(bps),
     aiAgentPages |-> aiAgentPageWarnings(pgs),
     pageOrdering |-> pageOrderingWarnings(pgs),
     relationTitles |-> relationTitleWarnings(bps),
     automationTriggers |-> automationTriggerWarnings(acts),
     entityPageTypes |-> entityPageTypeWarnings(pgs)]

-----------------------------------------------------------------------------
(* Runs of detectMigrationWarnings *)

Str_GitHub == <<"G","i","t","H","u","b">>

DetectPagePool ==
    { [identifier |-> Id_sysAi, type |-> "entity", after |-> Id_zz,
       widgets |-> <<AiAgentObject>>],
      [identifier |-> Id_virtual, type |-> "dashboard", after |-> Id_zz],
      [identifier |-> Id_a, type |-> "dashboard", after |-> Id_sysAi],
      [identifier |-> Id_ab, type |-> "entity", after |-> Id_a],
      [identifier |-> Id_a, type |-> "entity", widgets |-> <<AiAgentObject>>],
      [identifier |-> Id_b, type |-> "dashboard", after |-> <<>>],
      [identifier |-> Id_b, type |-> "dashboard", after |-> Id_virtual],
      [identifier |-> Id_ab, type |-> "dashboard", after |-> Id_ab],
      [identifier |-> Id_zz, type |-> "dashboard", after |-> Null] }

\* the integrations, blueprints and actions fetched along with the pages
DetectOthers ==
    { [integrations |-> <<>>, blueprints |-> <<>>, actions |-> <<>>],
      [integrations |-> <<[identifier |-> <<"g","h">>,
                           integrationType |-> Str_GitHub],
                          [identifier |-> Id_a, integrationType |-> <<"k","8","s">>]>>,
       blueprints |-> <<[identifier |-> Id_user, title |-> "User"],
                        [identifier |-> Id_ab, title |-> "Service",
                         relations |-> <<[key |-> Key_owner_team, target |-> Id_a,
                                          title |-> Null],
                                         [key |-> Key_x, target |-> Id_a]>>]>>,
       actions |-> <<[identifier |-> Id_a, title |-> "Run", automation_trigger |-> <<"t">>],
                     [identifier |-> Id_b, title |-> "Stop"],
                     [identifier |-> Id_zz, title |-> "Wait",
                      automation_trigger |-> Null]>>] }

DetectIntegrationPool ==
    { [identifier |-> <<"g","h">>, integrationType |-> Str_GitHub],
      [identifier |-> Id_a, integrationType |-> Str_github],
      [identifier |-> Id_b, integrationType |-> <<"k","8","s">>],
      [identifier |-> Id_zz, integrationType |-> Str_github \o <<"x">>] }

DetectBlueprintPool ==
    { [identifier |-> Id_user, title |-> "User",
       relations |-> <<[key |-> Key_x, target |-> Id_user, title |-> Null]>>],
      [identifier |-> Id_sysAi, title |-> "Agents"],
      [identifier |-> Id_ab, title |-> "Service",
       relations |-> <<[key |-> Key_owner_team, target |-> Id_a, title |-> Null],
                       [key |-> Key_x, target |-> Id_a],
                       [key |-> Key_onCall, target |-> Id_b, title |-> Null]>>],
      [identifier |-> Id_a, title |-> "Team"],
      [identifier |-> Id_b, title |-> "Rota",
       relations |-> <<[key |-> Key_onCall, target |-> Id_a, title |-> Title_X],
                       [key |-> Key_x, target |-> Id_ab, title |-> <<>>]>>],
      [identifier |-> Id_zz, title |-> "Empty", relations |-> <<>>] }

DetectActionPool ==
    { [identifier |-> Id_a, title |-> "Run", automation_trigger |-> <<"t">>],
      [identifier |-> Id_b, title |-> "Stop"],
      [identifier |-> Id_zz, title |-> "Wait", automation_trigger |-> Null],
      [identifier |-> Id_ab, title |-> "Go", automation_trigger |-> <<>>] }

\* a run varies the pages against fixed other lists, or one of the other
\* lists alone
InitDetect ==
    /\ pc = "start"
    /\ fn = "detectMigrationWarnings"
    /\ \/ /\ pages \in SeqsUpTo(DetectPagePool, MaxDetectLen)
          /\ \E o \in DetectOthers :
                /\ integrations = o.integrations
                /\ blueprints = o.blueprints
                /\ actions = o.actions
       \/ /\ integrations \in SeqsUpTo(DetectIntegrationPool, MaxDetectLen)
          /\ pages = <<>> /\ blueprints = <<>> /\ actions = <<>>
       \/ /\ blueprints \in SeqsUpTo(DetectBlueprintPool, MaxDetectLen)
          /\ pages = <<>> /\ integrations = <<>> /\ actions = <<>>
       \/ /\ actions \in SeqsUpTo(DetectActionPool, MaxDetectLen)
          /\ pages = <<>> /\ integrations = <<>> /\ blueprints = <<>>
    /\ filterOptions = NoOptions
    /\ importedPageIds = {}
    /\ IdleMatchInputs
    /\ IdleUnitInputs /\ IdleReportInputs
    /\ IdleRunInputs
    /\ heap = NoHeap
    /\ out = NoResult /\ out2 = NoResult

DetectMigrationWarnings ==
    /\ pc = "start"
    /\ fn = "detectMigrationWarnings"
    /\ out' = detectMigrationWarnings(integrations, blueprints, pages, actions)
    /\ pc' = "once"
    /\ UNCHANGED <<fn, inputs, heap, out2>>

NextDetect == DetectMigrationWarnings

SpecDetect == InitDetect /\ [][NextDetect]_vars

Detected == fn = "detectMigrationWarnings" /\ pc = "once"

ResourceIds(warningList) == [i \in 1..Len(warningList) |-> warningList[i].resourceId]

\* the page's after is set and names no non-system, non-virtual page of list
AfterUnresolvable(p, list) ==
    /\ "after" \in DOMAIN p
    /\ p.after \notin {Null, <<>>}
    /\ ~\E i \in 1..Len(list) : UserPage(list[i]) /\ list[i].identifier = p.after

\* C10: the pageOrdering list has exactly one warning, in input order, for
\* each non-system, non-virtual page whose after is set and is not the
\* identifier of a non-system, non-virtual page of the same input, and no
\* other entry.
C10_PageOrderingDetection ==
    Detected =>
        /\ ResourceIds(out.pageOrdering) =
              IdsWhere(pages, LAMBDA p : UserPage(p) /\ AfterUnresolvable(p, pages))
        /\ \A i \in 1..Len(out.pageOrdering) :
              /\ out.pageOrdering[i].category = "page-ordering"
              /\ out.pageOrdering[i].resourceType = "page"

\* C10 witness: of three pages, the one whose after names the system page of
\* the same input is flagged and the one whose after names a user page is not
C10_Witness ==
    /\ Detected
    /\ Len(pages) = 3
    /\ pages[1].identifier = Id_sysAi
    /\ pages[2].identifier = Id_a /\ Get(pages[2], "after") = Id_sysAi
    /\ pages[3].identifier = Id_ab /\ Get(pages[3], "after") = Id_a
    /\ ResourceIds(out.pageOrdering) = <<Id_a>>

\* one resourceId <blueprint>.<relation> per explicitly null title of the
\* blueprint, in relation order
NullTitleIdsOf(bp) ==
    IF "relations" \in DOMAIN bp
    THEN LET nulls == SelectSeq(bp.relations, NullTitle)
         IN  [k \in 1..Len(nulls) |-> bp.identifier \o <<".">> \o nulls[k].key]
    ELSE <<>>

\* the resourceIds of the blueprints up to index n, in blueprint order
RECURSIVE NullTitleIdsUpTo(_, _)
NullTitleIdsUpTo(list, n) ==
    IF n = 0 THEN <<>> ELSE NullTitleIdsUpTo(list, n - 1) \o NullTitleIdsOf(list[n])

\* C11: the relationTitles list has exactly one warning with resourceId
\* <blueprint>.<relation> for each relation whose title is explicitly null,
\* in blueprint order then relation order, and none for a relation whose
\* title is absent or a string.
C11_NullTitleDetection ==
    Detected =>
        /\ ResourceIds(out.relationTitles) = NullTitleIdsUpTo(blueprints, Len(blueprints))
        /\ \A i \in 1..Len(out.relationTitles) :
              /\ out.relationTitles[i].category = "relation-title"
              /\ out.relationTitles[i].resourceType = "blueprint"

\* C11 witness: two blueprints with four relations between them whose titles
\* are null, absent, null and the empty string give two warnings, and a
\* system blueprint's null title gives a third
C11_Witness ==
    /\ Detected
    /\ Len(blueprints) = 3
    /\ blueprints[1].identifier = Id_b /\ blueprints[2].identifier = Id_ab
    /\ blueprints[3].identifier = Id_user
    /\ ResourceIds(out.relationTitles) =
          << Id_ab \o <<".">> \o Key_owner_team,
             Id_ab \o <<".">> \o Key_onCall,
             Id_user \o <<".">> \o Key_x >>

\* the integration type is the word github in any mix of cases
IsGithubType(t) ==
    /\ Len(t) = Len(Str_github)
    /\ \A i \in 1..Len(t) : t[i] \in {Str_github[i], CharToUpper(Str_github[i])}

CategoryIs(warningList, category) ==
    \A i \in 1..Len(warningList) : warningList[i].category = category

\* C12: githubIntegrations has one warning per integration whose type is
\* github ignoring case, systemBlueprints one per blueprint whose identifier
\* starts with _, automationTriggers one per action whose automation trigger
\* is present and not null, entityPageTypes one per non-system, non-virtual
\* page of type entity, aiAgentPages one per non-system, non-virtual page
\* with an AI agent widget; each list is in input order, holds nothing else,
\* and every warning's category is that of its list.
C12_OtherCategoriesExact ==
    Detected =>
        /\ ResourceIds(out.githubIntegrations) =
              IdsWhere(integrations, LAMBDA e : IsGithubType(e.integrationType))
        /\ ResourceIds(out.systemBlueprints) =
              IdsWhere(blueprints, LAMBDA e : startsWith(e.identifier, "_"))
        /\ ResourceIds(out.automationTriggers) =
              IdsWhere(actions, LAMBDA e : /\ "automation_trigger" \in DOMAIN e
                                           /\ e.automation_trigger # Null)
        /\ ResourceIds(out.entityPageTypes) =
              IdsWhere(pages, LAMBDA p : UserPage(p) /\ p.type = "entity")
        /\ ResourceIds(out.aiAgentPages) =
              IdsWhere(pages, LAMBDA p : UserPage(p) /\ hasAiAgentWidget(p))
        /\ CategoryIs(out.githubIntegrations, "github-integration")
        /\ CategoryIs(out.systemBlueprints, "system-blueprint")
        /\ CategoryIs(out.automationTriggers, "automation-trigger")
        /\ CategoryIs(out.entityPageTypes, "entity-page-type")
        /\ CategoryIs(out.aiAgentPages, "ai-agent-page")
        /\ CategoryIs(out.pageOrdering, "page-ordering")
        /\ CategoryIs(out.relationTitles, "relation-title")

\* C12 witness: every one of the five lists has a warning and has left an
\* element of its input out
C12_Witness ==
    /\ Detected
    /\ Len(out.githubIntegrations) = 1 /\ Len(integrations) = 2
    /\ Len(out.systemBlueprints) = 1 /\ Len(blueprints) = 2
    /\ Len(out.automationTriggers) = 1 /\ Len(actions) = 3
    /\ Len(pages) = 3
    /\ pages[1].identifier = Id_sysAi /\ pages[1].type = "entity"
    /\ hasAiAgentWidget(pages[1])
    /\ ResourceIds(out.entityPageTypes) = <<Id_ab, Id_a>>
    /\ ResourceIds(out.aiAgentPages) = <<Id_a>>

\* C12 second witness: a mixed-case GitHub type is flagged and a longer type
\* that starts with github is not
C12_WitnessCase ==
    /\ Detected
    /\ Len(integrations) = 3
    /\ integrations[1].integrationType = Str_github \o <<"x">>
    /\ integrations[2].integrationType = Str_GitHub
    /\ ResourceIds(out.githubIntegrations) = <<integrations[2].identifier>>

-----------------------------------------------------------------------------
(* generatePageImports.  An import block is the values substituted into    *)
(* its template: the resource address, the id and the provider.            *)

ImportBlock(resource, name, id, providerAlias) ==
    [to |-> [resource |-> resource, name |-> name], id |-> id, provider |-> providerAlias]

\* variant: only the $ prefix is skipped
generatePageImports_OnlyDollar(list, providerAlias) ==
    LET kept == SelectSeq(list, LAMBDA p : ~startsWith(p.identifier, "$"))
    IN  [i \in 1..Len(kept) |->
           ImportBlock("port_page", kept[i].identifier, kept[i].identifier, providerAlias)]

\* the forEach with its guarded push: one block per page that is kept
generatePageImports(list, providerAlias) ==
    LET kept == SelectSeq(list, LAMBDA p : /\ ~startsWith(p.identifier, "$")
                                           /\ ~startsWith(p.identifier, "_"))
    IN  [i \in 1..Len(kept) |->
           ImportBlock("port_page", kept[i].identifier, kept[i].identifier, providerAlias)]

-----------------------------------------------------------------------------
(* Runs of the three functions that process pages, on the same page lists *)

\* longest page list of these runs
MaxPagesLen == 3

DefaultProviderAlias == "port-labs"

PagesPool ==
    { [identifier |-> Id_sysAi, type |-> "entity", after |-> Id_zz,
       widgets |-> <<AiAgentObject>>],
      [identifier |-> Id_virtual, type |-> "entity", after |-> Id_zz,
       widgets |-> <<AiAgentObject>>],
      [identifier |-> Id_a, type |-> "entity", after |-> Id_sysAi,
       widgets |-> <<AiAgentObject>>],
      [identifier |-> Id_ab, type |-> "dashboard", after |-> Id_a],
      [identifier |-> Id_b, type |-> "dashboard", after |-> Id_virtual],
      [identifier |-> Id_zz, type |-> "entity"] }

PagesFns == {"detectMigrationWarnings", "applyPageAutoFixes", "generatePageImports"}

InitPages ==
    /\ pc = "start"
    /\ fn \in PagesFns
    /\ pages \in SeqsUpTo(PagesPool, MaxPagesLen)
    /\ importedPageIds \in IF fn = "applyPageAutoFixes" THEN FixIdSets ELSE {{}}
    /\ integrations = <<>> /\ blueprints = <<>> /\ actions = <<>>
    /\ filterOptions = NoOptions
    /\ IdleMatchInputs
    /\ IdleUnitInputs /\ IdleReportInputs
    /\ IdleRunInputs
    /\ heap = NoHeap
    /\ out = NoResult /\ out2 = NoResult

GeneratePageImports ==
    /\ pc = "start"
    /\ fn = "generatePageImports"
    /\ out' = [importBlocks |-> generatePageImports(pages, DefaultProviderAlias)]
    /\ pc' = "once"
    /\ UNCHANGED <<fn, inputs, heap, out2>>

NextPages == DetectMigrationWarnings \/ ApplyPageAutoFixes \/ GeneratePageImports

SpecPages == InitPages /\ [][NextPages]_vars

PageImportsGenerated == fn = "generatePageImports" /\ pc = "once"

\* the identifier starts with $ or _
SystemOrVirtualId(id) == startsWith(id, "$") \/ startsWith(id, "_")

NoneSystemOrVirtual(ids) == \A i \in 1..Len(ids) : ~SystemOrVirtualId(ids[i])

\* C13: no page whose identifier starts with $ or _ appears in the
\* aiAgentPages, pageOrdering or entityPageTypes warnings, in
\* entityPageTypesFixed or pageOrderingFixed, or as the target of an import
\* block of generatePageImports.
C13_SystemPagesExcluded ==
    /\ Detected =>
          /\ NoneSystemOrVirtual(ResourceIds(out.aiAgentPages))
          /\ NoneSystemOrVirtual(ResourceIds(out.pageOrdering))
          /\ NoneSystemOrVirtual(ResourceIds(out.entityPageTypes))
    /\ PagesFixed =>
          /\ NoneSystemOrVirtual(out.fixes.entityPageTypesFixed)
          /\ NoneSystemOrVirtual(out.fixes.pageOrderingFixed)
    /\ PageImportsGenerated =>
          \A i \in 1..Len(out.importBlocks) :
              /\ ~SystemOrVirtualId(out.importBlocks[i].to.name)
              /\ ~SystemOrVirtualId(out.importBlocks[i].id)

\* C13 witness: a system page, a virtual page and a user page, all three of
\* type entity with an AI agent widget and a dangling after, give one import
\* block, for the user page
C13_Witness ==
    /\ PageImportsGenerated
    /\ Len(pages) = 3
    /\ pages[1].identifier = Id_sysAi /\ pages[2].identifier = Id_virtual
    /\ pages[3].identifier = Id_a
    /\ out.importBlocks = <<ImportBlock("port_page", Id_a, Id_a, DefaultProviderAlias)>>

\* C14: every page whose identifier starts with _ or $ is returned by
\* applyPageAutoFixes at the same position with every field as it was, even
\* when its type is entity or its after is not among the imported ids.
C14_SystemPagesUnchanged ==
    PagesFixed =>
        /\ Len(out.pages) = Len(pages)
        /\ \A i \in 1..Len(pages) :
              SystemOrVirtualId(pages[i].identifier) => out.pages[i] = pages[i]

\* C14 witness: a virtual page of type entity whose after is not imported
\* comes back as it was, next to a user page that was rewritten
C14_Witness ==
    /\ fn = "applyPageAutoFixes" /\ pc = "once"
    /\ Len(pages) = 2
    /\ pages[1].identifier = Id_virtual /\ pages[1].type = "entity"
    /\ pages[1].after \notin importedPageIds
    /\ out.pages[1] = pages[1]
    /\ ~SystemOrVirtualId(pages[2].identifier)
    /\ out.pages[2] # pages[2]

-----------------------------------------------------------------------------
(* Runs of humanizeRelationKey *)

\* longest key drawn from KeyChars
MaxKeyLen == 3

KeyChars == {"a", "B", "_", "-"}

Key_service_owner == <<"s","e","r","v","i","c","e","_","o","w","n","e","r">>
Key_on_call_team == <<"o","n","-","c","a","l","l","-","t","e","a","m">>
Title_ServiceOwner == <<"S","e","r","v","i","c","e"," ","O","w","n","e","r">>
Title_OnCallTeam == <<"O","n"," ","C","a","l","l"," ","T","e","a","m">>

HumanizeKeys ==
    SeqsUpTo(KeyChars, MaxKeyLen) \cup {Key_service_owner, Key_on_call_team, Key_x}

InitHumanize ==
    /\ pc = "start"
    /\ fn = "humanizeRelationKey"
    /\ humanizeKey \in HumanizeKeys
    /\ IdleListInputs
    /\ IdleMatchInputs
    /\ IdleRunInputs
    /\ IdleReportInputs
    /\ heap = NoHeap
    /\ out = NoResult /\ out2 = NoResult

HumanizeRelationKey ==
    /\ pc = "start"
    /\ fn = "humanizeRelationKey"
    /\ out' = [value |-> humanizeRelationKey(humanizeKey)]
    /\ pc' = "once"
    /\ UNCHANGED <<fn, inputs, heap, out2>>

NextHumanize == HumanizeRelationKey

SpecHumanize == InitHumanize /\ [][NextHumanize]_vars

Humanized == fn = "humanizeRelationKey" /\ pc = "once"

KeySeparators == {"-", "_"}

\* the character the title has where the key has its i-th character: a space
\* for a separator, the upper-case form at the start of a word, the
\* lower-case form elsewhere
HumanizedChar(k, i) ==
    IF k[i] \in KeySeparators THEN " "
    ELSE IF i = 1 \/ k[i - 1] \in KeySeparators THEN CharToUpper(k[i])
    ELSE CharToLower(k[i])

\* C16: humanizeRelationKey splits the key on every - and _, upper-cases the
\* first character and lower-cases the rest of each word, and joins the words
\* with single spaces, also with leading, trailing or consecutive
\* separators; service_owner gives "Service Owner", on-call-team gives
\* "On Call Team" and x gives "X".
C16_Humanization ==
    Humanized =>
        /\ out.value = [i \in 1..Len(humanizeKey) |-> HumanizedChar(humanizeKey, i)]
        /\ humanizeKey = Key_service_owner => out.value = Title_ServiceOwner
        /\ humanizeKey = Key_on_call_team => out.value = Title_OnCallTeam
        /\ humanizeKey = Key_x => out.value = Title_X

\* C16 witness: a key with a leading separator and a capital inside a word
C16_Witness ==
    /\ Humanized
    /\ humanizeKey = <<"_", "a", "B">>
    /\ out.value = <<" ", "A", "b">>

-----------------------------------------------------------------------------
(* generateFixScript.  A line of text is the sequence of its pieces: its   *)
(* first character, then the rest, cut where a value is substituted; a sed *)
(* command is also cut at the delimiters of its s/pattern/replacement/g    *)
(* expression.  The empty line is the empty sequence.  The text returned   *)
(* is the lines joined by the piece "\n".                                   *)

\* Array.prototype.join('\n')
RECURSIVE JoinLines(_)
JoinLines(lines) ==
    IF lines = <<>> THEN <<>>
    ELSE IF Len(lines) = 1 THEN lines[1]
    ELSE lines[1] \o <<"\n">> \o JoinLines(Tail(lines))

Line_ifDarwin == <<"i", "f [[ \"$OSTYPE\" == \"darwin\"* ]]; then">>
Line_else == <<"e", "lse">>
Line_fi == <<"f", "i">>

\* the two sed commands of a rule: the one for darwin, the one for the rest
SedDarwin(pat, replacement) ==
    <<" ", " sed -i '' 's/", pat, "/", replacement, "/g' generated.tf">>
SedOther(pat, replacement) ==
    <<" ", " sed -i 's/", pat, "/", replacement, "/g' generated.tf">>

Pat_typeEntity == "type *= *\"entity\""
Rep_typeBlueprintEntities == "type = \"blueprint-entities\""
Pat_expressionsNull == "expressions = null"
Rep_expressionsEmpty == "expressions = []"

scriptHeaderLines ==
    << <<"#", "!/bin/bash">>,
       <<"#", " Auto-generated fix script for generated.tf">>,
       <<"#", " Run this after: terraform plan -generate-config-out=generated.tf">>,
       <<>>,
       <<"s", "et -e">>,
       <<>> >>

\* variant: the entity rule is emitted whatever the list holds
entityPageTypeLines_Always(w) ==
    << <<"#", " Fix ", ToString(Len(w.entityPageTypes)),
         " entity page types (change \"entity\" to \"blueprint-entities\")">>,
       Line_ifDarwin,
       SedDarwin(Pat_typeEntity, Rep_typeBlueprintEntities),
       Line_else,
       SedOther(Pat_typeEntity, Rep_typeBlueprintEntities),
       Line_fi,
       <<"e", "cho \"Fixed entity page types\"">>,
       <<>> >>

\* if (warnings.entityPageTypes.length > 0) { ... }
entityPageTypeLines(w) ==
    IF Len(w.entityPageTypes) > 0
    THEN << <<"#", " Fix ", ToString(Len(w.entityPageTypes)),
              " entity page types (change \"entity\" to \"blueprint-entities\")">>,
            Line_ifDarwin,
            SedDarwin(Pat_typeEntity, Rep_typeBlueprintEntities),
            Line_else,
            SedOther(Pat_typeEntity, Rep_typeBlueprintEntities),
            Line_fi,
            <<"e", "cho \"Fixed entity page types\"">>,
            <<>> >>
    ELSE <<>>

\* the lines pushed whatever the warnings are
expressionsLines ==
    << <<"#", " Fix jq_condition expressions (change null to empty array)">>,
       Line_ifDarwin,
       SedDarwin(Pat_expressionsNull, Rep_expressionsEmpty),
       Line_else,
       SedOther(Pat_expressionsNull, Rep_expressionsEmpty),
       Line_fi,
       <<"e", "cho \"Fixed jq_condition expressions\"">>,
       <<>> >>

\* the forEach over warnings.relationTitles: a line for each resourceId that
\* has exactly one dot
RECURSIVE relationTitleNotes(_)
relationTitleNotes(list) ==
    IF list = <<>> THEN <<>>
    ELSE LET parts == split(Head(list).resourceId, {"."})
             note == IF Len(parts) = 2
                     THEN << <<"#", " ">> \o Head(list).resourceId \o <<" -> \"">>
                             \o humanizeRelationKey(parts[2]) \o <<"\"">> >>
                     ELSE <<>>
         IN  note \o relationTitleNotes(Tail(list))

\* variant: the suggested title substitution is emitted as a command
relationTitleLines_Uncommented(w) ==
    IF Len(w.relationTitles) > 0
    THEN << <<"#", " Fix ", ToString(Len(w.relationTitles)), " null relation titles">>,
            <<"#", " Note: Applying automatic fix - defaulting titles from relation key names">> >>
         \o relationTitleNotes(w.relationTitles)
         \o << <<"#", " To fix automatically, review and run:">>,
               SedDarwin("title *= *null", "title = \"REVIEW_ME\""),
               <<>> >>
    ELSE <<>>

\* if (warnings.relationTitles.length > 0) { ... }
relationTitleLines(w) ==
    IF Len(w.relationTitles) > 0
    THEN << <<"#", " Fix ", ToString(Len(w.relationTitles)), " null relation titles">>,
            <<"#", " Note: Applying automatic fix - defaulting titles from relation key names">> >>
         \o relationTitleNotes(w.relationTitles)
         \o << <<"#", " To fix automatically, review and run:">>,
               <<"#", " sed -i '' 's/", "title *= *null", "/", "title = \"REVIEW_ME\"",
                 "/g' generated.tf">>,
               <<>> >>
    ELSE <<>>

\* if (warnings.pageOrdering.length > 0) { ... }
pageOrderingLines(w) ==
    IF Len(w.pageOrdering) > 0
    THEN << <<"#", " Fix ", ToString(Len(w.pageOrdering)), " page ordering issues">>,
            <<"#", " Pages referencing non-imported pages - setting after = null">> >>
         \o [i \in 1..Len(w.pageOrdering) |-> <<"#", " ">> \o w.pageOrdering[i].resourceId]
         \o << <<"#", " Note: You may need to manually set after = null for these pages in generated.tf">>,
               <<>> >>
    ELSE <<>>

\* hasFixableIssues is true once the expressions rule is pushed
closingLines ==
    LET hasFixableIssues == TRUE
    IN  IF hasFixableIssues
        THEN << <<"e", "cho \"Fixes applied to generated.tf\"">> >>
        ELSE << <<"e", "cho \"No automatic fixes needed\"">> >>

generateFixScript(w) ==
    JoinLines(scriptHeaderLines \o entityPageTypeLines(w) \o expressionsLines
              \o relationTitleLines(w) \o pageOrderingLines(w) \o closingLines)

-----------------------------------------------------------------------------
(* Runs of generateFixScript *)

\* longest list of one warning category handed to generateFixScript
MaxWarnLen == 2

Id_a_b == <<"a", ".", "b">>

EntityWarningPool ==
    { Warning("entity-page-type", "page", id,
              "Page has type entity (change to blueprint-entities)", <<id>>) :
        id \in {Id_a, Id_ab} }

RelationWarningPool ==
    { Warning("relation-title", "blueprint", id, "Relation has null title", <<id>>) :
        id \in { Id_ab \o <<".">> \o Key_owner_team,
                 Id_b \o <<".">> \o Key_x,
                 Id_a_b \o <<".">> \o Key_x } }

OrderingWarningPool ==
    { Warning("page-ordering", "page", id, "Page references (not imported)", <<id, Id_zz>>) :
        id \in {Id_a, Id_b} }

ScriptWarnings ==
    { [NoWarnings EXCEPT !.entityPageTypes = e, !.relationTitles = r, !.pageOrdering = o] :
        e \in SeqsUpTo(EntityWarningPool, MaxWarnLen),
        r \in SeqsUpTo(RelationWarningPool, MaxWarnLen),
        o \in SeqsUpTo(OrderingWarningPool, MaxWarnLen) }

InitScript ==
    /\ pc = "start"
    /\ fn = "generateFixScript"
    /\ reportWarnings \in ScriptWarnings
    /\ reportAutoFixes = NoFixes
    /\ reportCounts = NoCounts
    /\ reportDependencies = <<>>
    /\ reportClientId = Undefined
    /\ reportApiUrl = Undefined
    /\ IdleListInputs
    /\ IdleMatchInputs
    /\ IdleRunInputs
    /\ IdleUnitInputs
    /\ heap = NoHeap
    /\ out = NoResult /\ out2 = NoResult

GenerateFixScript ==
    /\ pc = "start"
    /\ fn = "generateFixScript"
    /\ out' = [text |-> generateFixScript(reportWarnings)]
    /\ pc' = "once"
    /\ UNCHANGED <<fn, inputs, heap, out2>>

NextScript == GenerateFixScript

SpecScript == InitScript /\ [][NextScript]_vars

ScriptWritten == fn = "generateFixScript" /\ pc = "once"

\* the lines of a text: the pieces between one line break and the next
LinesOf(text) ==
    LET breaks == SelectSeq([i \in 1..Len(text) |-> i], LAMBDA i : text[i] = "\n")
        n == Len(breaks)
        \* the k-th line break; the start of the text for 0, its end for n + 1
        BreakAt(k) == IF k = 0 THEN 0
                      ELSE IF k = n + 1 THEN Len(text) + 1
                      ELSE breaks[k]
    IN  [k \in 1..(n + 1) |-> SubSeq(text, BreakAt(k - 1) + 1, BreakAt(k) - 1)]

\* the line is a sed command replacing pat by replacement throughout
\* generated.tf
IsSubstitution(line, pat, replacement) ==
    line \in {SedDarwin(pat, replacement), SedOther(pat, replacement)}

\* the lines hold the rule for both platforms: the darwin command under the
\* OSTYPE test, the other command under its else
HasRule(lines, pat, replacement) ==
    \E i \in 1..(Len(lines) - 4) :
        /\ lines[i] = Line_ifDarwin
        /\ lines[i + 1] = SedDarwin(pat, replacement)
        /\ lines[i + 2] = Line_else
        /\ lines[i + 3] = SedOther(pat, replacement)
        /\ lines[i + 4] = Line_fi

MentionsRule(lines, pat, replacement) ==
    \E i \in 1..Len(lines) : IsSubstitution(lines[i], pat, replacement)

C17_WitnessWithout ==
    /\ ScriptWritten
    /\ Len(reportWarnings.entityPageTypes) = 0
    /\ Len(reportWarnings.relationTitles) > 0
    /\ ~MentionsRule(LinesOf(out.text), Pat_typeEntity, Rep_typeBlueprintEntities)
    /\ HasRule(LinesOf(out.text), Pat_expressionsNull, Rep_expressionsEmpty)

\* the position of the line that ends the expressions rule
ExpressionsEnd(lines) ==
    CHOOSE i \in 1..Len(lines) : lines[i] = <<"e", "cho \"Fixed jq_condition expressions\"">>

\* the lines emitted for the relationTitles and pageOrdering warnings: those
\* after the expressions rule and its empty line, before the closing echo
ReviewLines(lines) == SubSeq(lines, ExpressionsEnd(lines) + 2, Len(lines) - 1)

BeginsWithHash(line) == Len(line) >= 1 /\ line[1] = "#"

\* the line is a command (not a comment) that runs sed
IsSedCommand(line) ==
    /\ Len(line) >= 2
    /\ line[1] # "#"
    /\ line[2] \in {" sed -i '' 's/", " sed -i 's/"}

-----------------------------------------------------------------------------
(* generateMigrationReport.  Lines are sequences of pieces as in the fix   *)
(* script.  today is the date new Date() gives, in the form YYYY-MM-DD.    *)
(* The arrow of the relation title lines (U+2192) is written -> and the    *)
(* backquote of the markdown is written '.                                 *)

\* Array.prototype.join(sep) of pieces
RECURSIVE JoinPieces(_, _)
JoinPieces(items, sep) ==
    IF items = <<>> THEN <<>>
    ELSE IF Len(items) = 1 THEN items[1]
    ELSE items[1] \o <<sep>> \o JoinPieces(Tail(items), sep)

\* clientId ? '${clientId.substring(0, 4)}...(masked)' : 'N/A'
maskedClientId(clientId) ==
    IF Truthy(clientId)
    THEN SubSeq(clientId, 1, IF Len(clientId) < 4 THEN Len(clientId) ELSE 4)
         \o <<"...(masked)">>
    ELSE <<"N/A">>

\* '${n} ${label}' when n > 0, '0' otherwise
issuesCell(n, label) == IF n > 0 THEN <<ToString(n), label>> ELSE <<"0">>

tableRow(kind, count, issues) ==
    <<"|", kind, ToString(count), " | ">> \o issues \o <<" |">>

reportHeaderLines(clientId, apiUrl, today) ==
    << <<"#", " Migration Report - ", today>>,
       <<>>,
       <<"#", "# Source Organization">>,
       <<"-", " Client ID: ">> \o maskedClientId(clientId),
       <<"-", " API URL: ">> \o (IF Truthy(apiUrl) THEN apiUrl ELSE <<"api.getport.io">>),
       <<>>,
       <<"#", "# Resources Exported">>,
       <<"|", " Resource Type | Count | Issues |">>,
       <<"|", "--------------|-------|--------|">> >>

resourceRows(w, counts) ==
    LET blueprintIssues == Len(w.systemBlueprints)
        actionIssues == Len(w.automationTriggers)
        pageIssues == Len(w.aiAgentPages) + Len(w.pageOrdering) + Len(w.entityPageTypes)
        integrationIssues == Len(w.githubIntegrations)
    IN  << tableRow(" Blueprints | ", counts.blueprints,
                    issuesCell(blueprintIssues, " system")),
           tableRow(" Actions | ", counts.actions,
                    issuesCell(actionIssues, " automation trigger")),
           tableRow(" Pages | ", counts.pages,
                    IF pageIssues > 0
                    THEN <<ToString(Len(w.aiAgentPages)), " AI agents, ",
                           ToString(Len(w.pageOrdering)), " ordering, ",
                           ToString(Len(w.entityPageTypes)), " entity type">>
                    ELSE <<"0">>),
           tableRow(" Integrations | ", counts.integrations,
                    issuesCell(integrationIssues, " GitHub")),
           tableRow(" Scorecards | ", counts.scorecards, <<"0">>),
           tableRow(" Webhooks | ", counts.webhooks, <<"0">>),
           tableRow(" Folders | ", counts.folders, <<"0">>) >>
        \o (IF counts.entities > 0
            THEN << tableRow(" Entities | ", counts.entities, <<"0">>) >>
            ELSE <<>>)

\* variant: the note does not depend on the fix list
fixedNote_Always(fixList) == <<" (auto-fixed)">>

\* autoFixes.<list>.length > 0 ? ' (auto-fixed)' : ''
fixedNote(fixList) == IF Len(fixList) > 0 THEN <<" (auto-fixed)">> ELSE <<>>

\* one item of the warnings summary, pushed when its list is not empty
warningItem(list, label, note) ==
    IF Len(list) > 0
    THEN << <<"-", " ", ToString(Len(list)), label>> \o note >>
    ELSE <<>>

warningItems(w, fixes) ==
    warningItem(w.systemBlueprints, " system blueprints (cannot migrate via Terraform)", <<>>)
    \o warningItem(w.githubIntegrations, " GitHub integrations (require reconfiguration)", <<>>)
    \o warningItem(w.aiAgentPages, " AI agent pages (require manual setup)", <<>>)
    \o warningItem(w.relationTitles, " null relation titles",
                   fixedNote(fixes.relationTitlesFixed))
    \o warningItem(w.pageOrdering, " page ordering issues",
                   fixedNote(fixes.pageOrderingFixed))
    \o warningItem(w.entityPageTypes, " entity page types",
                   fixedNote(fixes.entityPageTypesFixed))
    \o warningItem(w.automationTriggers,
                   " automation triggers (may need userInputs configuration)", <<>>)

warningsSummaryLines(w, fixes) ==
    << <<>>, <<"#", "# Warnings Summary">> >>
    \o (IF warningItems(w, fixes) = <<>>
        THEN << <<"N", "o warnings detected.">> >>
        ELSE warningItems(w, fixes))

autoFixLines(fixes) ==
    IF \/ Len(fixes.entityPageTypesFixed) > 0
       \/ Len(fixes.relationTitlesFixed) > 0
       \/ Len(fixes.pageOrderingFixed) > 0
    THEN << <<>>, <<"#", "# Auto-Fixes Applied">> >>
         \o (IF Len(fixes.entityPageTypesFixed) > 0
             THEN << <<"-", " Entity page types fixed: ">>
                     \o JoinPieces(fixes.entityPageTypesFixed, ", ") >>
             ELSE <<>>)
         \o (IF Len(fixes.pageOrderingFixed) > 0
             THEN << <<"-", " Page ordering fixed: ">>
                     \o JoinPieces(fixes.pageOrderingFixed, ", ") >>
             ELSE <<>>)
         \o (IF Len(fixes.relationTitlesFixed) > 0
             THEN << <<"-", " Relation titles fixed:">> >>
                  \o [i \in 1..Len(fixes.relationTitlesFixed) |->
                        <<" ", " - ">> \o fixes.relationTitlesFixed[i].blueprint \o <<".">>
                        \o fixes.relationTitlesFixed[i].relation \o <<" -> \"">>
                        \o fixes.relationTitlesFixed[i].newTitle \o <<"\"">>]
             ELSE <<>>)
    ELSE <<>>

manualStepLines ==
    << <<>>,
       <<"#", "# Manual Steps Required">>,
       <<"1", ". Run: 'terraform plan -generate-config-out=generated.tf'">>,
       <<"2", ". Run: './fix_generated.sh' (if generated)">>,
       <<"3", ". Add 'depends_on' for blueprint relations (see below)">>,
       <<"4", ". Switch credentials to target org">>,
       <<"5", ". Run: 'terraform apply'">> >>

\* '# port_blueprint.${dep.blueprint}: depends_on = [${depsList}]'
dependencyLine(dep) ==
    <<"#", " port_blueprint.">> \o dep.blueprint \o <<": depends_on = [">>
    \o JoinPieces([i \in 1..Len(dep.dependsOn) |-> <<"port_blueprint.">> \o dep.dependsOn[i]],
                  ", ")
    \o <<"]">>

dependencyLines(deps) ==
    IF Len(deps) > 0
    THEN << <<>>,
            <<"#", "# Blueprint Dependencies">>,
            <<"T", "he following blueprints have relations and need 'depends_on':">>,
            <<"'", "''hcl">> >>
         \o [i \in 1..Len(deps) |-> dependencyLine(deps[i])]
         \o << <<"'", "''">> >>
    ELSE <<>>

reportFooterLines ==
    << <<>>, <<"-", "--">>, <<"*", "Generated by port-tf-import*">> >>

generateMigrationReport(w, fixes, counts, deps, clientId, apiUrl, today) ==
    JoinLines(reportHeaderLines(clientId, apiUrl, today)
              \o resourceRows(w, counts)
              \o warningsSummaryLines(w, fixes)
              \o autoFixLines(fixes)
              \o manualStepLines
              \o dependencyLines(deps)
              \o reportFooterLines)

-----------------------------------------------------------------------------
(* Runs of generateMigrationReport *)

\* longest dependency list handed to generateMigrationReport
MaxDepLen == 2

\* n warnings of one category
WarningsOf(category, rType, n) ==
    [i \in 1..n |-> Warning(category, rType, Id_a, "detected", <<Id_a>>)]

\* warnings lists of lengths m and n, dealt to the categories in two ways
ReportWarnings ==
    { [githubIntegrations |-> WarningsOf("github-integration", "integration", m),
       systemBlueprints |-> WarningsOf("system-blueprint", "blueprint", n),
       aiAgentPages |-> WarningsOf("ai-agent-page", "page", m),
       pageOrdering |-> WarningsOf("page-ordering", "page", n),
       relationTitles |-> WarningsOf("relation-title", "blueprint", m),
       automationTriggers |-> WarningsOf("automation-trigger", "action", n),
       entityPageTypes |-> WarningsOf("entity-page-type", "page", m)] :
        m \in 0..MaxWarnLen, n \in 0..MaxWarnLen }
    \cup
    { [githubIntegrations |-> WarningsOf("github-integration", "integration", n),
       systemBlueprints |-> WarningsOf("system-blueprint", "blueprint", m),
       aiAgentPages |-> WarningsOf("ai-agent-page", "page", m),
       pageOrdering |-> WarningsOf("page-ordering", "page", m),
       relationTitles |-> WarningsOf("relation-title", "blueprint", n),
       automationTriggers |-> WarningsOf("automation-trigger", "action", m),
       entityPageTypes |-> WarningsOf("entity-page-type", "page", n)] :
        m \in 0..MaxWarnLen, n \in 0..MaxWarnLen }

ReportFixes ==
    { [entityPageTypesFixed |-> e, relationTitlesFixed |-> r, pageOrderingFixed |-> o] :
        e \in {<<>>, <<Id_a, Id_ab>>},
        r \in {<<>>, <<[blueprint |-> Id_ab, relation |-> Key_owner_team,
                        newTitle |-> Title_OwnerTeam]>>},
        o \in {<<>>, <<Id_b>>} }

ReportCounts ==
    { [blueprints |-> 1, actions |-> 2, pages |-> 3, integrations |-> 4,
       scorecards |-> 5, webhooks |-> 6, folders |-> 7, entities |-> e] : e \in {0, 8} }
    \cup {NoCounts}

ReportDependencyPool ==
    { [blueprint |-> Id_ab, dependsOn |-> <<Id_a, Id_b>>],
      [blueprint |-> Id_b, dependsOn |-> <<Id_a>>] }

\* the credentials and the base URL of the environment
ReportOrgs ==
    { [clientId |-> Undefined, apiUrl |-> Undefined],
      [clientId |-> <<"a","b","c","d","e","f">>, apiUrl |-> <<"api.us.getport.io">>],
      [clientId |-> <<"a","b">>, apiUrl |-> <<>>] }

ReportDates == {"2026-11-03"}

InitReport ==
    /\ pc = "start"
    /\ fn = "generateMigrationReport"
    /\ reportWarnings \in ReportWarnings
    /\ reportAutoFixes \in ReportFixes
    /\ reportCounts \in ReportCounts
    /\ reportDependencies \in SeqsUpTo(ReportDependencyPool, MaxDepLen)
    /\ \E org \in ReportOrgs : reportClientId = org.clientId /\ reportApiUrl = org.apiUrl
    /\ IdleListInputs
    /\ IdleMatchInputs
    /\ IdleRunInputs
    /\ IdleUnitInputs
    /\ heap = NoHeap
    /\ out = NoResult /\ out2 = NoResult

GenerateMigrationReport ==
    /\ pc = "start"
    /\ fn = "generateMigrationReport"
    /\ \E today \in ReportDates :
          out' = [text |-> generateMigrationReport(reportWarnings, reportAutoFixes,
                                                   reportCounts, reportDependencies,
                                                   reportClientId, reportApiUrl, today)]
    /\ pc' = "once"
    /\ UNCHANGED <<fn, inputs, heap, out2>>

NextReport == GenerateMigrationReport

SpecReport == InitReport /\ [][NextReport]_vars

ReportWritten == fn = "generateMigrationReport" /\ pc = "once"

\* the table has a row for the kind
HasRow(lines, kind) ==
    \E i \in 1..Len(lines) : Len(lines[i]) >= 3 /\ lines[i][1] = "|" /\ lines[i][2] = kind

\* the table has one row for the kind, and it states the count
RowStates(lines, kind, count) ==
    LET rows == {i \in 1..Len(lines) :
                    Len(lines[i]) >= 3 /\ lines[i][1] = "|" /\ lines[i][2] = kind}
    IN  /\ Cardinality(rows) = 1
        /\ \A i \in rows : lines[i][3] = ToString(count)

\* the summary items with the label
ItemsOf(lines, label) ==
    {i \in 1..Len(lines) : Len(lines[i]) >= 4 /\ lines[i][1] = "-" /\ lines[i][4] = label}

\* the summary states the length of a list that is not empty, and has no
\* item for one that is
ItemStates(lines, label, list) ==
    IF Len(list) > 0
    THEN /\ Cardinality(ItemsOf(lines, label)) = 1
         /\ \A i \in ItemsOf(lines, label) : lines[i][3] = ToString(Len(list))
    ELSE ItemsOf(lines, label) = {}

\* the summary item with the label carries the note (auto-fixed)
ItemNoted(lines, label) ==
    \E i \in ItemsOf(lines, label) : Len(lines[i]) = 5 /\ lines[i][5] = " (auto-fixed)"

\* the section of applied fixes has the line that starts with the heading
FixListed(lines, heading) ==
    \E i \in 1..Len(lines) : Len(lines[i]) >= 2 /\ lines[i][1] = "-" /\ lines[i][2] = heading

\* the report marks a fixable category as auto-fixed exactly when its fix
\* list is not empty: by its line among the applied fixes, and by the note on
\* its summary item when it has one
MarkedIffFixed(lines, label, heading, list, fixList) ==
    /\ FixListed(lines, heading) <=> Len(fixList) > 0
    /\ ItemNoted(lines, label) <=> (Len(list) > 0 /\ Len(fixList) > 0)

IsAnnotation(line) == Len(line) >= 2 /\ line[1] = "#" /\ line[2] = " port_blueprint."

\* the annotation line names the entry's blueprint and lists its targets
AnnotationOf(line, dep) ==
    LET n == Len(dep.blueprint)
        targets == split(SubSeq(line, n + 4, Len(line) - 1), {", "})
    IN  /\ SubSeq(line, 3, n + 2) = dep.blueprint
        /\ line[n + 3] = ": depends_on = ["
        /\ line[Len(line)] = "]"
        /\ targets = [i \in 1..Len(dep.dependsOn) |->
                         <<"port_blueprint.">> \o dep.dependsOn[i]]

ReportBody(lines) ==
    /\ RowStates(lines, " Blueprints | ", reportCounts.blueprints)
    /\ RowStates(lines, " Actions | ", reportCounts.actions)
    /\ RowStates(lines, " Pages | ", reportCounts.pages)
    /\ RowStates(lines, " Integrations | ", reportCounts.integrations)
    /\ RowStates(lines, " Scorecards | ", reportCounts.scorecards)
    /\ RowStates(lines, " Webhooks | ", reportCounts.webhooks)
    /\ RowStates(lines, " Folders | ", reportCounts.folders)
    /\ ItemStates(lines, " system blueprints (cannot migrate via Terraform)",
                  reportWarnings.systemBlueprints)
    /\ ItemStates(lines, " GitHub integrations (require reconfiguration)",
                  reportWarnings.githubIntegrations)
    /\ ItemStates(lines, " AI agent pages (require manual setup)",
                  reportWarnings.aiAgentPages)
    /\ ItemStates(lines, " null relation titles", reportWarnings.relationTitles)
    /\ ItemStates(lines, " page ordering issues", reportWarnings.pageOrdering)
    /\ ItemStates(lines, " entity page types", reportWarnings.entityPageTypes)
    /\ ItemStates(lines, " automation triggers (may need userInputs configuration)",
                  reportWarnings.automationTriggers)
    /\ MarkedIffFixed(lines, " null relation titles", " Relation titles fixed:",
                      reportWarnings.relationTitles, reportAutoFixes.relationTitlesFixed)
    /\ MarkedIffFixed(lines, " page ordering issues", " Page ordering fixed: ",
                      reportWarnings.pageOrdering, reportAutoFixes.pageOrderingFixed)
    /\ MarkedIffFixed(lines, " entity page types", " Entity page types fixed: ",
                      reportWarnings.entityPageTypes, reportAutoFixes.entityPageTypesFixed)
    /\ LET annotations == SelectSeq(lines, IsAnnotation)
       IN  /\ Len(annotations) = Len(reportDependencies)
           /\ \A i \in 1..Len(annotations) :
                 AnnotationOf(annotations[i], reportDependencies[i])

\* C19 as stated: the report states the count passed for each resource kind
\* (entities among them), the number of warnings of each non-empty category,
\* marks each fixable category as auto-fixed iff its fix list is not empty,
\* and has one dependency annotation line per entry, in order, listing the
\* entry's targets.
C19_ReportStatesEveryCount ==
    ReportWritten =>
        LET lines == LinesOf(out.text)
        IN  /\ ReportBody(lines)
            /\ RowStates(lines, " Entities | ", reportCounts.entities)

\* C19 amended: as stated, except that the count of entities is stated if
\* and only if it is greater than zero.
C19_ReportContent ==
    ReportWritten =>
        LET lines == LinesOf(out.text)
        IN  /\ ReportBody(lines)
            /\ HasRow(lines, " Entities | ") <=> reportCounts.entities > 0
            /\ reportCounts.entities > 0 =>
                  RowStates(lines, " Entities | ", reportCounts.entities)

\* C19 witness: a report with entities, warnings of every category, fixes of
\* two of the three fixable categories and two dependency entries
C19_Witness ==
    /\ ReportWritten
    /\ reportCounts.entities = 8
    /\ \A c \in DOMAIN reportWarnings : Len(reportWarnings[c]) > 0
    /\ Len(reportWarnings.relationTitles) # Len(reportWarnings.pageOrdering)
    /\ Len(reportAutoFixes.relationTitlesFixed) > 0
    /\ Len(reportAutoFixes.entityPageTypesFixed) > 0
    /\ Len(reportAutoFixes.pageOrderingFixed) = 0
    /\ Len(reportDependencies) = 2
    /\ reportDependencies[1].dependsOn = <<Id_a, Id_b>>
    /\ ItemNoted(LinesOf(out.text), " null relation titles")
    /\ ~ItemNoted(LinesOf(out.text), " page ordering issues")
    /\ RowStates(LinesOf(out.text), " Entities | ", 8)

-----------------------------------------------------------------------------
(* Runs of hasAiAgentWidget *)

\* longest widgets array of these runs
MaxWidgets == 2

\* a widgets entry that is a string, by what JSON.parse makes of it and what
\* the text includes
StringWidget(json, type, agentIdentifier, typeMarker, agentMarker) ==
    [form |-> "string", json |-> json, type |-> type, agentIdentifier |-> agentIdentifier,
     typeMarker |-> typeMarker, agentMarker |-> agentMarker]

WidgetPool ==
    { AiAgentObject,
      TableObject,
      [form |-> "object", type |-> "table", agentIdentifier |-> <<"x">>],
      [form |-> "object", type |-> "chart", agentIdentifier |-> <<>>],
      [form |-> "object", type |-> "AI-agent", agentIdentifier |-> Null],
      [form |-> "null"],
      \* '{"type":"ai-agent"}'
      StringWidget("object", "ai-agent", Undefined, TRUE, FALSE),
      \* '{"type": "table", "agentIdentifier": "x"}'
      StringWidget("object", "table", <<"x">>, FALSE, TRUE),
      \* '{"type":"table","agentIdentifier":""}'
      StringWidget("object", "table", <<>>, FALSE, TRUE),
      \* '{"type":"table"}'
      StringWidget("object", "table", Undefined, FALSE, FALSE),
      \* '{"type":"ai-agent"' (cut short)
      StringWidget("malformed", "", Undefined, TRUE, FALSE),
      \* '{agentIdentifier: x}'
      StringWidget("malformed", "", Undefined, FALSE, TRUE),
      \* 'not json'
      StringWidget("malformed", "", Undefined, FALSE, FALSE),
      \* 'null'
      StringWidget("null", "", Undefined, FALSE, FALSE),
      \* '"agentIdentifier"' (a JSON string)
      StringWidget("scalar", "", Undefined, FALSE, TRUE),
      \* '42'
      StringWidget("scalar", "", Undefined, FALSE, FALSE) }

WidgetPages ==
    {[identifier |-> Id_a, type |-> "dashboard"]}
    \cup {[identifier |-> Id_a, type |-> "dashboard", widgets |-> ws] :
            ws \in SeqsUpTo(WidgetPool, MaxWidgets)}

InitWidget ==
    /\ pc = "start"
    /\ fn = "hasAiAgentWidget"
    /\ \E p \in WidgetPages : pages = <<p>>
    /\ integrations = <<>> /\ blueprints = <<>> /\ actions = <<>>
    /\ filterOptions = NoOptions
    /\ importedPageIds = {}
    /\ IdleMatchInputs
    /\ IdleUnitInputs /\ IdleReportInputs
    /\ IdleRunInputs
    /\ heap = NoHeap
    /\ out = NoResult /\ out2 = NoResult

HasAiAgentWidget ==
    /\ pc = "start"
    /\ fn = "hasAiAgentWidget"
    /\ out' = [value |-> hasAiAgentWidget(pages[1])]
    /\ pc' = "once"
    /\ UNCHANGED <<fn, inputs, heap, out2>>

NextWidget == HasAiAgentWidget

SpecWidget == InitWidget /\ [][NextWidget]_vars

WidgetChecked == fn = "hasAiAgentWidget" /\ pc = "once"

\* the entry is an object, or a string that parses to one
ParsesToObject(w) == w.form = "object" \/ (w.form = "string" /\ w.json = "object")

\* the entry parses to a value of type ai-agent or with a non-empty
\* agentIdentifier
ParsedAgent(w) ==
    /\ ParsesToObject(w)
    /\ \/ w.type = "ai-agent"
       \/ w.agentIdentifier \notin {Undefined, Null, <<>>}

\* the entry is a string that fails to parse and includes one of the markers
MalformedWithMarker(w) ==
    /\ w.form = "string" /\ w.json = "malformed"
    /\ w.typeMarker \/ w.agentMarker

WidgetsOf(p) == IF "widgets" \in DOMAIN p THEN p.widgets ELSE <<>>

\* C20: hasAiAgentWidget returns a boolean for every page and widget entry
\* (object, well-formed or malformed string, JSON null or scalar, null
\* entry); it returns true iff some entry parses to a value whose type is
\* ai-agent or whose agentIdentifier is non-empty, or fails to parse and is a
\* string containing one of the two markers; a malformed entry with neither
\* marker is no match.
C20_WidgetDetectionTotal ==
    WidgetChecked =>
        /\ out.value \in BOOLEAN
        /\ out.value <=>
              \E i \in 1..Len(WidgetsOf(pages[1])) :
                  \/ ParsedAgent(WidgetsOf(pages[1])[i])
                  \/ MalformedWithMarker(WidgetsOf(pages[1])[i])

\* C20 witness: a null entry followed by a cut-short string that includes
\* the type marker is a match
C20_Witness ==
    /\ WidgetChecked
    /\ Len(WidgetsOf(pages[1])) = 2
    /\ pages[1].widgets[1].form = "null"
    /\ pages[1].widgets[2] = StringWidget("malformed", "", Undefined, TRUE, FALSE)
    /\ out.value = TRUE

\* C20 second witness: a string that is not JSON and a JSON null, neither
\* with a marker, are no match
C20_WitnessNoMatch ==
    /\ WidgetChecked
    /\ Len(WidgetsOf(pages[1])) = 2
    /\ pages[1].widgets[1] = StringWidget("malformed", "", Undefined, FALSE, FALSE)
    /\ pages[1].widgets[2] = StringWidget("null", "", Undefined, FALSE, FALSE)
    /\ out.value = FALSE

-----------------------------------------------------------------------------
(* Objects by reference.  The heap is the sequence of the cells allocated  *)
(* so far and a reference is a cell's index.  An array is a cell of item   *)
(* references; an object is a cell of fields, where a blueprint's          *)
(* relations field holds the reference of its relations object; a          *)
(* relations object is a cell of entries [key, ref] in Object.entries      *)
(* order.  A new array or object literal allocates a cell; an assignment  *)
(* to a field writes the cell of the object assigned to.                   *)

ArrayCell(items) == [kind |-> "array", items |-> items]
ObjectCell(fields) == [kind |-> "object", fields |-> fields]
RecordCell(entries) == [kind |-> "record", entries |-> entries]

\* a new array or object
Alloc(h, cell) == [heap |-> Append(h, cell), ref |-> Len(h) + 1]

\* object.f = v
SetField(h, ref, f, v) == [h EXCEPT ![ref].fields = With(@, f, v)]

\* record[key] = ref, on a record that has no such key yet
AddEntry(h, ref, entryKey, entryRef) ==
    [h EXCEPT ![ref].entries = Append(@, [key |-> entryKey, ref |-> entryRef])]

\* the content reached from a reference: a relations object as the sequence
\* of its relations, a blueprint with its relations, a list of objects
RelationsAt(h, ref) ==
    [i \in 1..Len(h[ref].entries) |->
        With(h[h[ref].entries[i].ref].fields, "key", h[ref].entries[i].key)]

BlueprintAt(h, ref) ==
    IF Has(h[ref].fields, "relations")
    THEN [h[ref].fields EXCEPT !.relations = RelationsAt(h, @)]
    ELSE h[ref].fields

ObjectsAt(h, ref) == [i \in 1..Len(h[ref].items) |-> h[h[ref].items[i]].fields]

BlueprintsAt(h, ref) == [i \in 1..Len(h[ref].items) |-> BlueprintAt(h, h[ref].items[i])]

\* Array.prototype.filter: a new array of the references the callback keeps
filterOnHeap(h, ref, verdicts) ==
    LET kept == ArrayFilter(h[ref].items, 1, verdicts)
    IN  IF kept.threw THEN [threw |-> TRUE, heap |-> h, ref |-> 0]
        ELSE [threw |-> FALSE,
              heap |-> Alloc(h, ArrayCell(kept.value)).heap,
              ref |-> Alloc(h, ArrayCell(kept.value)).ref]

\* variant: fixedPage is the page itself, not a copy
spreadCopy_Alias(h, ref) == [heap |-> h, ref |-> ref]

\* { ...object }
spreadCopy(h, ref) == Alloc(h, h[ref])

\* pages.map of applyPageAutoFixes, from item i on: each page is copied and
\* the rewrites assign to the copy
RECURSIVE PageMapFrom(_, _, _, _, _)
PageMapFrom(h, items, i, ids, fixedRefs) ==
    IF i > Len(items) THEN Alloc(h, ArrayCell(fixedRefs))
    ELSE LET pg == h[items[i]].fields
             fixedPageCopy == spreadCopy(h, items[i])
             skip == isSystemPage(pg)
             h1 == IF ~skip /\ entityTypeNeedsFix(pg)
                   THEN SetField(fixedPageCopy.heap, fixedPageCopy.ref, "type",
                                 "blueprint-entities")
                   ELSE fixedPageCopy.heap
             h2 == IF ~skip /\ pageOrderingNeedsFix(pg, ids)
                   THEN SetField(h1, fixedPageCopy.ref, "after", Null)
                   ELSE h1
         IN  PageMapFrom(h2, items, i + 1, ids, Append(fixedRefs, fixedPageCopy.ref))

\* applyPageAutoFixes on references: the heap after the call, the array
\* returned and the fixes reported
applyPageAutoFixesOnHeap(h, ref, ids) ==
    LET mapped == PageMapFrom(h, h[ref].items, 1, ids, <<>>)
    IN  [heap |-> mapped.heap, pages |-> mapped.ref,
         fixes |-> applyPageAutoFixes(ObjectsAt(h, ref), ids).fixes]

\* the forEach over Object.entries(blueprint.relations), from entry i on:
\* a relation with a null title is copied with the new title, any other is
\* entered as it is
RECURSIVE RelationMapFrom(_, _, _, _, _)
RelationMapFrom(h, fixedRelations, entries, i, hasChanges) ==
    IF i > Len(entries) THEN [heap |-> h, hasChanges |-> hasChanges]
    ELSE LET relation == h[entries[i].ref].fields
             copied == Alloc(h, ObjectCell(With(relation, "title",
                                                humanizeRelationKey(entries[i].key))))
         IN  IF titleIsNull(relation)
             THEN RelationMapFrom(AddEntry(copied.heap, fixedRelations, entries[i].key,
                                           copied.ref),
                                  fixedRelations, entries, i + 1, TRUE)
             ELSE RelationMapFrom(AddEntry(h, fixedRelations, entries[i].key,
                                           entries[i].ref),
                                  fixedRelations, entries, i + 1, hasChanges)

\* blueprints.map of applyBlueprintAutoFixes, from item i on: a blueprint
\* without relations or without changes is returned itself
RECURSIVE BlueprintMapFrom(_, _, _, _)
BlueprintMapFrom(h, items, i, fixedRefs) ==
    IF i > Len(items) THEN Alloc(h, ArrayCell(fixedRefs))
    ELSE LET bp == h[items[i]].fields
             fixedRelations == Alloc(h, RecordCell(<<>>))
             r == RelationMapFrom(fixedRelations.heap, fixedRelations.ref,
                                  h[bp.relations].entries, 1, FALSE)
             copied == Alloc(r.heap, ObjectCell(With(bp, "relations", fixedRelations.ref)))
         IN  IF ~Has(bp, "relations")
             THEN BlueprintMapFrom(h, items, i + 1, Append(fixedRefs, items[i]))
             ELSE IF r.hasChanges
             THEN BlueprintMapFrom(copied.heap, items, i + 1, Append(fixedRefs, copied.ref))
             ELSE BlueprintMapFrom(r.heap, items, i + 1, Append(fixedRefs, items[i]))

applyBlueprintAutoFixesOnHeap(h, ref) ==
    LET mapped == BlueprintMapFrom(h, h[ref].items, 1, <<>>)
    IN  [heap |-> mapped.heap, blueprints |-> mapped.ref,
         fixes |-> applyBlueprintAutoFixes(BlueprintsAt(h, ref)).fixes]

-----------------------------------------------------------------------------
(* A run of main on references: the fetched lists are filtered, the        *)
(* filtered pages and blueprints are fixed when auto-fix is on, and the    *)
(* fetched lists are handed to detectMigrationWarnings and                 *)
(* buildDependencyGraph.  out holds main's local variables; the variables  *)
(* integrations, blueprints, pages and actions hold the content fetched.   *)

\* longest page list and longest blueprint list fetched
MaxFetchLen == 2

\* the objects of a fetched list and their array
RECURSIVE LoadObjects(_, _, _)
LoadObjects(h, list, refs) ==
    IF list = <<>> THEN Alloc(h, ArrayCell(refs))
    ELSE LET a == Alloc(h, ObjectCell(Head(list)))
         IN  LoadObjects(a.heap, Tail(list), Append(refs, a.ref))

\* the relation objects of a blueprint and its relations object
RECURSIVE LoadRelations(_, _, _)
LoadRelations(h, relations, ref) ==
    IF relations = <<>> THEN [heap |-> h, ref |-> ref]
    ELSE LET r == Head(relations)
             a == Alloc(h, ObjectCell([f \in (DOMAIN r) \ {"key"} |-> r[f]]))
         IN  LoadRelations(AddEntry(a.heap, ref, r.key, a.ref), Tail(relations), ref)

RECURSIVE LoadBlueprints(_, _, _)
LoadBlueprints(h, list, refs) ==
    IF list = <<>> THEN Alloc(h, ArrayCell(refs))
    ELSE LET bp == Head(list)
             record == Alloc(h, RecordCell(<<>>))
             rels == LoadRelations(record.heap, bp.relations, record.ref)
             a == IF Has(bp, "relations")
                  THEN Alloc(rels.heap, ObjectCell(With(bp, "relations", rels.ref)))
                  ELSE Alloc(h, ObjectCell(bp))
         IN  LoadBlueprints(a.heap, Tail(list), Append(refs, a.ref))

\* the heap after the four fetches, and main's locals at that point
Fetched(ints, bps, pgs, acts) ==
    LET i == LoadObjects(<<>>, ints, <<>>)
        b == LoadBlueprints(i.heap, bps, <<>>)
        p == LoadObjects(b.heap, pgs, <<>>)
        a == LoadObjects(p.heap, acts, <<>>)
    IN  [heap |-> a.heap,
         locals |-> [integrations |-> i.ref, blueprints |-> b.ref, pages |-> p.ref,
                     actions |-> a.ref,
                     filteredIntegrations |-> 0, filteredBlueprints |-> 0,
                     filteredPages |-> 0, fixedPages |-> 0, fixedBlueprints |-> 0,
                     autoFixes |-> NoFixes, warnings |-> NoWarnings,
                     dependencies |-> <<>>]]

MainPagePool ==
    { [identifier |-> Id_sysAi, type |-> "entity", after |-> Id_zz],
      [identifier |-> Id_a, type |-> "entity", after |-> Id_zz,
       widgets |-> <<AiAgentObject>>],
      [identifier |-> Id_ab, type |-> "dashboard", after |-> Id_a] }

MainBlueprintPool ==
    { [identifier |-> Id_user, title |-> "User",
       relations |-> <<[key |-> Key_x, target |-> Id_user, title |-> Null]>>],
      [identifier |-> Id_ab, title |-> "Service",
       relations |-> <<[key |-> Key_owner_team, target |-> Id_a, title |-> Null],
                       [key |-> Key_x, target |-> Id_zz, title |-> Title_X]>>],
      [identifier |-> Id_zz, title |-> "Rota",
       relations |-> <<[key |-> Key_onCall, target |-> Id_ab]>>],
      [identifier |-> Id_a, title |-> "Team"] }

MainOptions ==
    { NoOptions,
      [excludeGithubIntegrations |-> TRUE, excludeSystemBlueprints |-> TRUE,
       excludeAiPages |-> TRUE, excludePatterns |-> <<Str_blueprint \o <<":", "z", "*">>>>],
      [NoOptions EXCEPT !.excludePatterns = <<Str_page \o <<":", "?">>>>] }

InitMain ==
    /\ pc = "fetched"
    /\ fn = "main"
    /\ pages \in SeqsUpTo(MainPagePool, MaxFetchLen)
    /\ blueprints \in SeqsUpTo(MainBlueprintPool, MaxFetchLen)
    /\ integrations = <<[identifier |-> <<"g","h">>, integrationType |-> Str_GitHub],
                        [identifier |-> Id_a, integrationType |-> <<"k","8","s">>]>>
    /\ actions = <<[identifier |-> Id_a, title |-> "Run", automation_trigger |-> <<"t">>],
                   [identifier |-> Id_b, title |-> "Stop"]>>
    /\ filterOptions \in MainOptions
    /\ importedPageIds = {}
    /\ IdleMatchInputs
    /\ IdleUnitInputs /\ IdleReportInputs
    /\ IdleRunInputs
    /\ heap = Fetched(integrations, blueprints, pages, actions).heap
    /\ out = Fetched(integrations, blueprints, pages, actions).locals
    /\ out2 = NoResult

mainImportedPageIds_AllPages(list) == {list[i].identifier : i \in 1..Len(list)}

\* the set main builds of the identifiers of the filtered pages that are
\* neither virtual nor system pages
mainImportedPageIds(list) ==
    {list[i].identifier : i \in {j \in 1..Len(list) : ~isSystemPage(list[j])}}

\* one of the three filter calls: the filtered array is stored in the local,
\* or the exception ends the run
FilterCall(verdicts, ref, local, nextPc) ==
    LET r == filterOnHeap(heap, ref, verdicts)
    IN  IF r.threw
        THEN pc' = "failed" /\ UNCHANGED <<heap, out>>
        ELSE pc' = nextPc /\ heap' = r.heap /\ out' = [out EXCEPT ![local] = r.ref]

MainFilterIntegrations ==
    /\ fn = "main" /\ pc = "fetched"
    /\ FilterCall([i \in 1..Len(integrations) |->
                      integrationCallback(ObjectsAt(heap, out.integrations)[i], filterOptions)],
                  out.integrations, "filteredIntegrations", "integrationsFiltered")
    /\ UNCHANGED <<fn, inputs, out2>>

MainFilterBlueprints ==
    /\ fn = "main" /\ pc = "integrationsFiltered"
    /\ FilterCall([i \in 1..Len(blueprints) |->
                      blueprintCallback(BlueprintsAt(heap, out.blueprints)[i], filterOptions)],
                  out.blueprints, "filteredBlueprints", "blueprintsFiltered")
    /\ UNCHANGED <<fn, inputs, out2>>

MainFilterPages ==
    /\ fn = "main" /\ pc = "blueprintsFiltered"
    /\ FilterCall([i \in 1..Len(pages) |->
                      pageCallback(ObjectsAt(heap, out.pages)[i], filterOptions)],
                  out.pages, "filteredPages", "filtered")
    /\ UNCHANGED <<fn, inputs, out2>>

\* autoFix is off: the filtered lists go on as they are
MainSkipAutoFixes ==
    /\ fn = "main" /\ pc = "filtered"
    /\ pc' = "fixed"
    /\ out' = [out EXCEPT !.fixedPages = out.filteredPages,
                          !.fixedBlueprints = out.filteredBlueprints]
    /\ UNCHANGED <<fn, inputs, heap, out2>>

MainApplyPageAutoFixes ==
    /\ fn = "main" /\ pc = "filtered"
    /\ LET ids == mainImportedPageIds(ObjectsAt(heap, out.filteredPages))
           r == applyPageAutoFixesOnHeap(heap, out.filteredPages, ids)
       IN  /\ heap' = r.heap
           /\ out' = [out EXCEPT !.fixedPages = r.pages,
                                 !.autoFixes.entityPageTypesFixed =
                                     r.fixes.entityPageTypesFixed,
                                 !.autoFixes.pageOrderingFixed = r.fixes.pageOrderingFixed]
    /\ pc' = "pagesFixed"
    /\ UNCHANGED <<fn, inputs, out2>>

MainApplyBlueprintAutoFixes ==
    /\ fn = "main" /\ pc = "pagesFixed"
    /\ LET r == applyBlueprintAutoFixesOnHeap(heap, out.filteredBlueprints)
       IN  /\ heap' = r.heap
           /\ out' = [out EXCEPT !.fixedBlueprints = r.blueprints,
                                 !.autoFixes.relationTitlesFixed =
                                     r.fixes.relationTitlesFixed]
    /\ pc' = "fixed"
    /\ UNCHANGED <<fn, inputs, out2>>

\* detectMigrationWarnings on the fetched lists, as the heap holds them now
MainDetectMigrationWarnings ==
    /\ fn = "main" /\ pc = "fixed"
    /\ out' = [out EXCEPT !.warnings =
                  detectMigrationWarnings(ObjectsAt(heap, out.integrations),
                                          BlueprintsAt(heap, out.blueprints),
                                          ObjectsAt(heap, out.pages),
                                          ObjectsAt(heap, out.actions))]
    /\ pc' = "detected"
    /\ UNCHANGED <<fn, inputs, heap, out2>>

MainBuildDependencyGraph ==
    /\ fn = "main" /\ pc = "detected"
    /\ out' = [out EXCEPT !.dependencies =
                  buildDependencyGraph(BlueprintsAt(heap, out.blueprints))]
    /\ pc' = "done"
    /\ UNCHANGED <<fn, inputs, heap, out2>>

NextMain ==
    \/ MainFilterIntegrations
    \/ MainFilterBlueprints
    \/ MainFilterPages
    \/ MainSkipAutoFixes
    \/ MainApplyPageAutoFixes
    \/ MainApplyBlueprintAutoFixes
    \/ MainDetectMigrationWarnings
    \/ MainBuildDependencyGraph

SpecMain == InitMain /\ [][NextMain]_vars

\* the run has reached one of the given points of main
MainAt(points) == fn = "main" /\ pc \in points

\* the fetched lists, as the heap holds them, have the content fetched
FetchedUnchanged ==
    /\ ObjectsAt(heap, out.integrations) = integrations
    /\ BlueprintsAt(heap, out.blueprints) = blueprints
    /\ ObjectsAt(heap, out.pages) = pages
    /\ ObjectsAt(heap, out.actions) = actions

AfterFilters == {"filtered", "pagesFixed", "fixed", "detected", "done"}

\* the lists the fixers are given still have the content the filters returned
FixerInputsUnchanged ==
    /\ ObjectsAt(heap, out.filteredPages) = filterPages(pages, filterOptions).value
    /\ BlueprintsAt(heap, out.filteredBlueprints) =
           filterBlueprints(blueprints, filterOptions).value
    /\ ObjectsAt(heap, out.filteredIntegrations) =
           filterIntegrations(integrations, filterOptions).value

\* C15: after every call of a filter, a fixer, detectMigrationWarnings or
\* buildDependencyGraph in a run of main, every list handed to an earlier or
\* the present call, every record in it and the relations nested in it have
\* the content they had before; so the warnings and the dependency graph
\* computed after the auto-fix step are those of the lists as fetched, and a
\* detection repeated at the end of the run equals the first.
C15_NoInputMutated ==
    fn = "main" =>
        /\ FetchedUnchanged
        /\ pc \in AfterFilters => FixerInputsUnchanged
        /\ pc \in {"detected", "done"} =>
               out.warnings =
                   detectMigrationWarnings(integrations, blueprints, pages, actions)
        /\ pc = "done" =>
               /\ out.dependencies = buildDependencyGraph(blueprints)
               /\ detectMigrationWarnings(ObjectsAt(heap, out.integrations),
                                          BlueprintsAt(heap, out.blueprints),
                                          ObjectsAt(heap, out.pages),
                                          ObjectsAt(heap, out.actions)) = out.warnings

\* a finished run in which both fixers changed a record: the fixed lists
\* differ from the filtered ones and the fetched lists carry warnings
C15_Witness ==
    /\ MainAt({"done"})
    /\ out.autoFixes.entityPageTypesFixed # <<>>
    /\ out.autoFixes.relationTitlesFixed # <<>>
    /\ ObjectsAt(heap, out.fixedPages) # ObjectsAt(heap, out.filteredPages)
    /\ BlueprintsAt(heap, out.fixedBlueprints) # BlueprintsAt(heap, out.filteredBlueprints)
    /\ out.warnings.relationTitles # <<>>
    /\ out.dependencies # <<>>

\* the fixers on references return the content the fixers on values return
FixersAgree ==
    MainAt({"fixed", "detected", "done"}) /\ out.fixedPages # out.filteredPages =>
        /\ ObjectsAt(heap, out.fixedPages) =
               applyPageAutoFixes(filterPages(pages, filterOptions).value,
                   mainImportedPageIds(filterPages(pages, filterOptions).value)).pages
        /\ BlueprintsAt(heap, out.fixedBlueprints) =
               applyBlueprintAutoFixes(
                   filterBlueprints(blueprints, filterOptions).value).blueprints

-----------------------------------------------------------------------------
(* The command line run of main as a sequence of effects.  The resources   *)
(* fetched are left out: what is kept is the order of the prints, network  *)
(* calls, file writes and commands, the files present, the entities        *)
(* collected and the way the process ends.  Every call into the network,   *)
(* the filesystem or terraform succeeds or fails as the environment        *)
(* decides.  A file exists once a write of it succeeded; terraform init    *)
(* creates .terraform and the generating plan may create generated.tf.     *)

\* most blueprint identifiers given with --export-entities-for-blueprints
MaxBlueprintIds == 2

\* most import files whose write fails in one run
MaxFailedWrites == 1

Event(op, arg, ok) == [op |-> op, arg |-> arg, ok |-> ok]

Diag_credentials == "Please provide env vars PORT_CLIENT_ID and PORT_CLIENT_SECRET"

\* the seven fetches of main, in order
FetchOrder ==
    <<"/actions?version=v2", "/blueprints", "/scorecards", "/integration",
      "/webhooks", "/pages", "/sidebars/catalog">>

\* the nine files of writeImportBlocksToFile, in the order of the Promise.all
ImportFiles ==
    <<"action_imports.tf", "blueprint_imports.tf", "aggregation_property_imports.tf",
      "scorecard_imports.tf", "integration_imports.tf", "webhook_imports.tf",
      "page_imports.tf", "folder_imports.tf", "entities_imports.tf">>

\* the entities the API holds for a blueprint
EntitiesOf(blueprintId) ==
    IF blueprintId = Id_a
    THEN <<[identifier |-> Id_a, title |-> "A", blueprint |-> blueprintId]>>
    ELSE <<[identifier |-> Id_a, title |-> "A", blueprint |-> blueprintId],
           [identifier |-> Id_b, title |-> "B", blueprint |-> blueprintId]>>

CliBlueprintIds == {Id_user, Id_a, Id_ab}

\* the lists of blueprint identifiers given: each blueprint at most once
CliBlueprintLists ==
    {ids \in SeqsUpTo(CliBlueprintIds, MaxBlueprintIds) :
        \A i, j \in DOMAIN ids : ids[i] = ids[j] => i = j}

CliEnvValues == {Undefined, <<>>, <<"i","d">>}

CliInitialFiles == SUBSET {"providers.tf", ".terraform"}

\* main's state at its first statement
Started(initialFiles) ==
    [trace |-> <<>>, files |-> initialFiles, initialFiles |-> initialFiles,
     next |-> 1, allEntities |-> <<>>, entityLog |-> <<>>, status |-> "running"]

InitCli ==
    /\ pc = "start"
    /\ fn = "cli"
    /\ cliOptions \in
         [exportEntitiesForBlueprints : CliBlueprintLists,
          migrationMode : {FALSE}, autoFix : {FALSE},
          generateFixScript : BOOLEAN, report : BOOLEAN, terraform : BOOLEAN]
    /\ processEnv \in [PORT_CLIENT_ID : CliEnvValues, PORT_CLIENT_SECRET : CliEnvValues,
                       PORT_BEARER_TOKEN : {Undefined, <<"t">>}]
    /\ \/ processEnv.PORT_CLIENT_ID = <<"i","d">> /\ processEnv.PORT_CLIENT_SECRET = <<"i","d">>
       \/ /\ cliOptions.exportEntitiesForBlueprints = <<>>
          /\ processEnv.PORT_BEARER_TOKEN = Undefined
    /\ scorecards = <<>> /\ webhooks = <<>> /\ folders = <<>> /\ allEntities = <<>>
    /\ IdleListInputs
    /\ IdleMatchInputs
    /\ IdleUnitInputs /\ IdleReportInputs
    /\ heap = NoHeap
    /\ out \in {Started(f) : f \in CliInitialFiles}
    /\ out2 = NoResult

Emit(o, e) == [o EXCEPT !.trace = Append(@, e)]

\* the exception reaches the catch of main
Throw(o) == pc' = "caught" /\ out' = o

\* lines 218-221
CliCheckCredentials ==
    /\ fn = "cli" /\ pc = "start"
    /\ IF ~Truthy(processEnv.PORT_CLIENT_ID) \/ ~Truthy(processEnv.PORT_CLIENT_SECRET)
       THEN /\ out' = [Emit(out, Event("print", Diag_credentials, TRUE))
                          EXCEPT !.status = "exit0"]
            /\ pc' = "exited"
       ELSE /\ pc' = "getClient"
            /\ UNCHANGED out
    /\ UNCHANGED <<fn, inputs, heap, out2>>

\* line 224: getClient reads PORT_API_BASE_URL, which throws when it is not
\* set, and requests the token unless PORT_BEARER_TOKEN is set
CliGetClient ==
    /\ fn = "cli" /\ pc = "getClient"
    /\ \E urlSet \in BOOLEAN, ok \in BOOLEAN :
         LET read == Emit(out, Event("compute", "getPortApiUrl", urlSet))
             o == IF Truthy(processEnv.PORT_BEARER_TOKEN) THEN read
                  ELSE Emit(read, Event("post", "/auth/access_token", ok))
         IN  IF ~urlSet THEN Throw(read)
             ELSE IF ok \/ Truthy(processEnv.PORT_BEARER_TOKEN)
             THEN pc' = "fetch" /\ out' = [o EXCEPT !.next = 1]
             ELSE Throw(o)
    /\ UNCHANGED <<fn, inputs, heap, out2>>

\* lines 225-238: the next of the seven fetches
CliFetch ==
    /\ fn = "cli" /\ pc = "fetch"
    /\ \E ok \in BOOLEAN :
         LET o == Emit(out, Event("get", FetchOrder[out.next], ok))
         IN  IF ~ok THEN Throw(o)
             ELSE /\ out' = [o EXCEPT !.next = IF out.next = Len(FetchOrder) THEN 1 ELSE @ + 1]
                  /\ pc' = IF out.next < Len(FetchOrder) THEN "fetch"
                           ELSE IF Len(cliOptions.exportEntitiesForBlueprints) > 0
                                THEN "entities" ELSE "filter"
    /\ UNCHANGED <<fn, inputs, heap, out2>>

\* what client.get returns for the entities of a blueprint
EntityResponse(blueprintId, result) ==
    IF result = "entities" THEN [entities |-> EntitiesOf(blueprintId)]
    ELSE [ok |-> TRUE]

\* lines 251-255
collect_Replaces(all, res) ==
    IF Has(res, "entities") THEN res.entities ELSE all

collect(all, res) ==
    IF Has(res, "entities") THEN all \o res.entities ELSE all

\* lines 243-263: one turn of the entity loop
CliFetchEntities ==
    /\ fn = "cli" /\ pc = "entities"
    /\ LET ids == cliOptions.exportEntitiesForBlueprints
           blueprintId == ids[out.next]
           logged(result) == [out EXCEPT !.next = @ + 1,
                                         !.entityLog = Append(@, [blueprint |-> blueprintId,
                                                                  result |-> result])]
       IN  /\ IF startsWith(blueprintId, "_")
              THEN out' = Emit(logged("skipped"),
                               Event("print", "Skipping system blueprint", TRUE))
              ELSE \E result \in {"entities", "malformed", "threw"} :
                     LET got == Emit(logged(result),
                                     Event("get", "/blueprints/:id/entities",
                                           result # "threw"))
                         res == EntityResponse(blueprintId, result)
                     IN  out' =
                            IF result = "threw"
                            THEN Emit(got, Event("print", "Failed to fetch entities", TRUE))
                            ELSE IF Has(res, "entities")
                            THEN [got EXCEPT !.allEntities = collect(@, res)]
                            ELSE Emit(got, Event("print", "No valid entities array returned",
                                                 TRUE))
           /\ pc' = IF out.next < Len(ids) THEN "entities" ELSE "filter"
    /\ UNCHANGED <<fn, inputs, heap, out2>>

\* lines 266-339: filters, fixers and generators compute on the lists
\* fetched; new RegExp in a filter may throw
CliFilterAndGenerate ==
    /\ fn = "cli" /\ pc = "filter"
    /\ \E ok \in BOOLEAN :
         LET o == Emit(out, Event("compute", "filter and generate", ok))
         IN  IF ok THEN pc' = "write" /\ out' = o ELSE Throw(o)
    /\ UNCHANGED <<fn, inputs, heap, out2>>

\* lines 341-351: the nine writes are started together; the files whose
\* write succeeds exist; one rejection rejects the Promise.all
CliWriteImports ==
    /\ fn = "cli" /\ pc = "write"
    /\ \E failed \in {s \in SUBSET Range(ImportFiles) : Cardinality(s) <= MaxFailedWrites} :
         LET o == [out EXCEPT
                     !.trace = @ \o [i \in 1..Len(ImportFiles) |->
                                        Event("write", ImportFiles[i],
                                              ImportFiles[i] \notin failed)],
                     !.files = @ \cup (Range(ImportFiles) \ failed)]
         IN  IF failed # {} THEN Throw(o) ELSE pc' = "fixScript" /\ out' = o
    /\ UNCHANGED <<fn, inputs, heap, out2>>

\* one fs.promises.writeFile of main: the file exists after it, or it throws
WriteFile(name, nextPc) ==
    \E ok \in BOOLEAN :
        LET o == Emit(out, Event("write", name, ok))
        IN  IF ok THEN pc' = nextPc /\ out' = [o EXCEPT !.files = @ \cup {name}]
            ELSE Throw(o)

\* lines 373-378
CliWriteFixScript ==
    /\ fn = "cli" /\ pc = "fixScript"
    /\ IF cliOptions.generateFixScript \/ cliOptions.terraform
       THEN WriteFile("fix_generated.sh", "report")
       ELSE pc' = "report" /\ UNCHANGED out
    /\ UNCHANGED <<fn, inputs, heap, out2>>

\* lines 380-415
CliWriteReport ==
    /\ fn = "cli" /\ pc = "report"
    /\ IF cliOptions.report
       THEN WriteFile("migration_report.md", "terraform")
       ELSE pc' = "terraform" /\ UNCHANGED out
    /\ UNCHANGED <<fn, inputs, heap, out2>>

\* process.exit(1) after a failed step
Exit1(o) == pc' = "exited" /\ out' = [o EXCEPT !.status = "exit1"]

\* lines 418-427
CliTerraformVersion ==
    /\ fn = "cli" /\ pc = "terraform"
    /\ IF ~cliOptions.terraform
       THEN pc' = "returned" /\ out' = [out EXCEPT !.status = "returned"]
       ELSE \E ok \in BOOLEAN :
              LET o == Emit(out, Event("exec", "terraform version", ok))
              IN  IF ok THEN pc' = "providers" /\ out' = o ELSE Exit1(o)
    /\ UNCHANGED <<fn, inputs, heap, out2>>

\* lines 429-457
CliProviders_Overwrites ==
    /\ fn = "cli" /\ pc = "providers"
    /\ WriteFile("providers.tf", "init")
    /\ UNCHANGED <<fn, inputs, heap, out2>>

CliProviders ==
    /\ fn = "cli" /\ pc = "providers"
    /\ IF "providers.tf" \notin out.files
       THEN WriteFile("providers.tf", "init")
       ELSE pc' = "init" /\ UNCHANGED out
    /\ UNCHANGED <<fn, inputs, heap, out2>>

\* lines 459-470
CliInit ==
    /\ fn = "cli" /\ pc = "init"
    /\ IF ".terraform" \notin out.files
       THEN \E ok \in BOOLEAN :
              LET o == Emit(out, Event("exec", "terraform init", ok))
              IN  IF ok THEN pc' = "plan" /\ out' = [o EXCEPT !.files = @ \cup {".terraform"}]
                  ELSE Exit1(o)
       ELSE pc' = "plan" /\ UNCHANGED out
    /\ UNCHANGED <<fn, inputs, heap, out2>>

\* lines 472-493: the status of the plan is not read; generated.tf is looked for
CliPlan ==
    /\ fn = "cli" /\ pc = "plan"
    /\ \E ok \in BOOLEAN, created \in BOOLEAN :
         LET files == IF created THEN out.files \cup {"generated.tf"} ELSE out.files
             found == "generated.tf" \in files
             o == Emit(Emit([out EXCEPT !.files = files],
                            Event("exec", "terraform plan -generate-config-out=generated.tf", ok)),
                       Event("exists", "generated.tf", found))
         IN  IF found THEN pc' = "applyFix" /\ out' = o ELSE Exit1(o)
    /\ UNCHANGED <<fn, inputs, heap, out2>>

\* lines 495-505
CliApplyFix ==
    /\ fn = "cli" /\ pc = "applyFix"
    /\ IF "fix_generated.sh" \in out.files
       THEN \E ok \in BOOLEAN :
              LET o == Emit(out, Event("exec", "bash fix_generated.sh", ok))
              IN  IF ok THEN pc' = "validate" /\ out' = o ELSE Exit1(o)
       ELSE pc' = "validate" /\ UNCHANGED out
    /\ UNCHANGED <<fn, inputs, heap, out2>>

\* lines 507-525
CliValidate ==
    /\ fn = "cli" /\ pc = "validate"
    /\ \E ok \in BOOLEAN :
         out' = [Emit(out, Event("exec", "terraform plan", ok)) EXCEPT !.status = "returned"]
    /\ pc' = "returned"
    /\ UNCHANGED <<fn, inputs, heap, out2>>

\* lines 527-529
CliCatch ==
    /\ fn = "cli" /\ pc = "caught"
    /\ out' = [Emit(out, Event("print", "Error:", TRUE)) EXCEPT !.status = "returned"]
    /\ pc' = "returned"
    /\ UNCHANGED <<fn, inputs, heap, out2>>

NextCli ==
    \/ CliCheckCredentials
    \/ CliGetClient
    \/ CliFetch
    \/ CliFetchEntities
    \/ CliFilterAndGenerate
    \/ CliWriteImports
    \/ CliWriteFixScript
    \/ CliWriteReport
    \/ CliTerraformVersion
    \/ CliProviders
    \/ CliInit
    \/ CliPlan
    \/ CliApplyFix
    \/ CliValidate
    \/ CliCatch

SpecCli == InitCli /\ [][NextCli]_vars

\* the run of main has ended: by return or by process.exit
CliEnded == fn = "cli" /\ pc \in {"returned", "exited"}

CliMissingCredentials ==
    \/ processEnv.PORT_CLIENT_ID \in {Undefined, <<>>}
    \/ processEnv.PORT_CLIENT_SECRET \in {Undefined, <<>>}

\* C21: when PORT_CLIENT_ID or PORT_CLIENT_SECRET is absent or empty, the run
\* is either at its first statement with nothing done, or has exited with
\* status 0 after printing the diagnostic and nothing else: no token
\* request, no fetch, no file written.
C21_MissingCredentialsExit ==
    fn = "cli" /\ CliMissingCredentials =>
        \/ pc = "start" /\ out.trace = <<>> /\ out.status = "running"
        \/ /\ pc = "exited" /\ out.status = "exit0"
           /\ out.trace = <<Event("print", Diag_credentials, TRUE)>>
           /\ out.files = out.initialFiles

\* the run exited for an empty client id although the secret was given
C21_Witness ==
    /\ CliEnded
    /\ processEnv.PORT_CLIENT_ID = <<>> /\ processEnv.PORT_CLIENT_SECRET = <<"i","d">>
    /\ out.status = "exit0"

\* the import files of the resource kind an endpoint returns
FilesOfKind(endpoint) ==
    CASE endpoint = "/actions?version=v2" -> {"action_imports.tf"}
      [] endpoint = "/blueprints" -> {"blueprint_imports.tf", "aggregation_property_imports.tf"}
      [] endpoint = "/scorecards" -> {"scorecard_imports.tf"}
      [] endpoint = "/integration" -> {"integration_imports.tf"}
      [] endpoint = "/webhooks" -> {"webhook_imports.tf"}
      [] endpoint = "/pages" -> {"page_imports.tf"}
      [] endpoint = "/sidebars/catalog" -> {"folder_imports.tf"}

Written(name) == Event("write", name, TRUE) \in Range(out.trace)

\* C22: at the end of a run in which the fetch of one resource kind failed,
\* the import files of all other kinds have been written.
C22_OtherKindsWritten ==
    CliEnded =>
        \A i \in DOMAIN out.trace :
            LET e == out.trace[i]
            IN  e.op = "get" /\ ~e.ok /\ e.arg \in Range(FetchOrder) =>
                    \A f \in Range(ImportFiles) \ FilesOfKind(e.arg) : Written(f)

\* the failure of a fetch is followed by the print of the catch block
C22_FailureSurfaced ==
    CliEnded =>
        \A i \in DOMAIN out.trace :
            out.trace[i].op = "get" /\ ~out.trace[i].ok =>
                \E j \in DOMAIN out.trace : j > i /\ out.trace[j].op = "print"

Exec_version == Event("exec", "terraform version", TRUE)
Exec_init == "terraform init"
Exec_generate == "terraform plan -generate-config-out=generated.tf"
Exec_fix == "bash fix_generated.sh"
Exec_validate == "terraform plan"

\* the places of the trace where the event is
At(e) == {i \in DOMAIN out.trace : out.trace[i] = e}

\* the places of the trace where the command ran, with either outcome
Ran(command) == At(Event("exec", command, TRUE)) \cup At(Event("exec", command, FALSE))

\* every place of the first set has a place of the second before it
Precedes(later, earlier) == \A i \in later : \E j \in earlier : j < i

\* the event at the place ended the process with status 1: nothing but
\* prints and the look for generated.tf that found nothing follow it
Fatal(i) ==
    /\ out.status = "exit1" /\ pc = "exited"
    /\ \A j \in DOMAIN out.trace : j > i => out.trace[j].op = "exists"

\* C23: in a run with --terraform, the nine import files are written before
\* fix_generated.sh, fix_generated.sh before any command runs, init before
\* the generating plan, the fix script after that plan and only when
\* generated.tf exists, the validating plan after the fix script succeeded;
\* a missing terraform, a failed init, a missing generated.tf or a failed fix
\* script ends the process with status 1 and no later step; providers.tf is
\* written only when it did not exist and init runs only when .terraform did
\* not exist.
C23_TerraformOrder ==
    fn = "cli" /\ cliOptions.terraform =>
        /\ \A f \in Range(ImportFiles) :
               Precedes(At(Event("write", "fix_generated.sh", TRUE))
                            \cup At(Event("write", "fix_generated.sh", FALSE)),
                        At(Event("write", f, TRUE)))
        /\ Precedes({i \in DOMAIN out.trace : out.trace[i].op = "exec"},
                    At(Event("write", "fix_generated.sh", TRUE)))
        /\ \A i \in Ran(Exec_generate) : \A j \in Ran(Exec_init) : j < i
        /\ Precedes(Ran(Exec_fix), Ran(Exec_generate))
        /\ Precedes(Ran(Exec_fix), At(Event("exists", "generated.tf", TRUE)))
        /\ Precedes(Ran(Exec_validate), At(Event("exec", Exec_fix, TRUE)))
        /\ \A i \in At(Event("exec", "terraform version", FALSE))
                    \cup At(Event("exec", Exec_init, FALSE))
                    \cup At(Event("exists", "generated.tf", FALSE))
                    \cup At(Event("exec", Exec_fix, FALSE)) : Fatal(i)
        /\ At(Event("write", "providers.tf", TRUE)) \cup At(Event("write", "providers.tf", FALSE)) # {}
               => "providers.tf" \notin out.initialFiles
        /\ ".terraform" \in out.initialFiles => Ran(Exec_init) = {}

\* a run with --terraform that wrote providers.tf, ran init, both plans and
\* the fix script, and returned
C23_Witness ==
    /\ CliEnded /\ cliOptions.terraform /\ out.status = "returned"
    /\ At(Event("write", "providers.tf", TRUE)) # {}
    /\ At(Event("exec", Exec_init, TRUE)) # {}
    /\ At(Event("exec", Exec_fix, TRUE)) # {}
    /\ Ran(Exec_validate) # {}

\* a run with --terraform that exited with status 1 at a failed fix script
C23_WitnessExit ==
    CliEnded /\ At(Event("exec", Exec_fix, FALSE)) # {} /\ out.status = "exit1"

\* the entities of the blueprints, of the first n given, whose fetch returned
\* an array
RECURSIVE FetchedEntities(_, _)
FetchedEntities(log, n) ==
    IF n = 0 THEN <<>>
    ELSE FetchedEntities(log, n - 1)
             \o (IF log[n].result = "entities" THEN EntitiesOf(log[n].blueprint) ELSE <<>>)

EntityGet(ok) == Event("get", "/blueprints/:id/entities", ok)

\* C27: of the blueprint identifiers given, those starting with _ cause no
\* network call; every identifier is taken in turn whatever the outcome of
\* the fetches before it; the entities collected are those of the
\* blueprints whose fetch returned an array, in argument order; and a run in
\* which nothing but entity fetches failed writes all nine import files.
C27_EntityExportContained ==
    fn = "cli" =>
        LET ids == cliOptions.exportEntitiesForBlueprints
            log == out.entityLog
        IN  /\ Len(log) <= Len(ids)
            /\ \A i \in DOMAIN log :
                   /\ log[i].blueprint = ids[i]
                   /\ log[i].result = "skipped" <=> startsWith(ids[i], "_")
            /\ Cardinality(At(EntityGet(TRUE)) \cup At(EntityGet(FALSE)))
                   = Cardinality({i \in DOMAIN log : ~startsWith(ids[i], "_")})
            /\ out.allEntities = FetchedEntities(log, Len(log))
            /\ pc \in {"filter", "write", "fixScript", "report"} => Len(log) = Len(ids)
            /\ /\ CliEnded /\ ~CliMissingCredentials
               /\ \A i \in DOMAIN out.trace : ~out.trace[i].ok => out.trace[i] = EntityGet(FALSE)
               => \A f \in Range(ImportFiles) : Written(f)

\* a run in which the first entity fetch threw, the second returned entities,
\* and the nine files were written
C27_Witness ==
    /\ CliEnded
    /\ Len(out.entityLog) = 2
    /\ out.entityLog[1].result = "threw"
    /\ out.entityLog[2].result = "entities"
    /\ out.allEntities # <<>>
    /\ \A f \in Range(ImportFiles) : Written(f)

\* a run that skipped a system blueprint and took a response without an
\* entities array
C27_WitnessSkipped ==
    /\ CliEnded
    /\ Len(out.entityLog) = 2
    /\ out.entityLog[1].result = "skipped"
    /\ out.entityLog[2].result = "malformed"
    /\ \A f \in Range(ImportFiles) : Written(f)

-----------------------------------------------------------------------------
(* The other import generators.  A scorecard, entity or blueprint of a     *)
(* system blueprint is imported as that system blueprint.                  *)

Digits == {"0", "1", "2", "3", "4", "5", "6", "7", "8", "9"}

Letters ==
    {"a","b","c","d","e","f","g","h","i","j","k","l","m","n","o","p","q","r","s","t",
     "u","v","w","x","y","z","A","B","C","D","E","F","G","H","I","J","K","L","M","N",
     "O","P","Q","R","S","T","U","V","W","X","Y","Z"}

\* String.prototype.trim, for the space character
RECURSIVE trim(_)
trim(s) ==
    IF s = <<>> THEN s
    ELSE IF Head(s) = " " THEN trim(Tail(s))
    ELSE IF s[Len(s)] = " " THEN trim(SubSeq(s, 1, Len(s) - 1))
    ELSE s

\* !isNaN(Number(s)) for a trimmed text of letters, digits, braces and
\* hyphens without sign, exponent or radix prefix: the empty text and the
\* texts of digits are numbers
IsNumber(s) == \A i \in 1..Len(s) : s[i] \in Digits

\* identifier.replace(/^\./g, 'dot')
cleanIdentifier(id) ==
    IF startsWith(id, ".") THEN <<"d", "o", "t">> \o Tail(id) ELSE id

ensureValidResourceName(id, integrationType) ==
    LET trimmedId == trim(id)
    IN  IF \/ IsNumber(trimmedId)
           \/ ~(\E i \in 1..Len(trimmedId) : trimmedId[i] \in Letters)
           \/ startsWith(trimmedId, "{")
        THEN integrationType \o <<"-">>
                 \o SelectSeq(trimmedId, LAMBDA c : c \notin {"{", "}"})
        ELSE trimmedId

generateActionImports(list, providerAlias) ==
    [i \in 1..Len(list) |->
        ImportBlock("port_action", list[i].identifier, list[i].identifier, providerAlias)]

SystemBlueprintBlock(id, providerAlias) ==
    ImportBlock("port_system_blueprint", id, id, providerAlias)

\* the forEach of generateScorecardImports from the i-th scorecard on, with
\* the set of the system blueprints already imported
RECURSIVE ScorecardBlocksFrom(_, _, _, _)
ScorecardBlocksFrom(list, i, systemBlueprintsImported, providerAlias) ==
    IF i > Len(list) THEN <<>>
    ELSE LET scorecard == list[i]
         IN  IF isSystemBlueprint(scorecard.blueprint)
             THEN IF scorecard.blueprint \notin systemBlueprintsImported
                  THEN <<SystemBlueprintBlock(scorecard.blueprint, providerAlias)>>
                           \o ScorecardBlocksFrom(list, i + 1,
                                  systemBlueprintsImported \cup {scorecard.blueprint},
                                  providerAlias)
                  ELSE ScorecardBlocksFrom(list, i + 1, systemBlueprintsImported,
                                           providerAlias)
             ELSE <<ImportBlock("port_scorecard", scorecard.identifier,
                                scorecard.blueprint \o <<":">> \o scorecard.identifier,
                                providerAlias)>>
                      \o ScorecardBlocksFrom(list, i + 1, systemBlueprintsImported,
                                             providerAlias)

generateScorecardImports(list, providerAlias) ==
    ScorecardBlocksFrom(list, 1, {}, providerAlias)

generateIntegrationImports(list, providerAlias) ==
    [i \in 1..Len(list) |->
        ImportBlock("port_integration",
                    ensureValidResourceName(list[i].identifier, list[i].integrationType),
                    list[i].identifier, providerAlias)]

generateWebhookImports(list, providerAlias) ==
    [i \in 1..Len(list) |->
        ImportBlock("port_webhook", list[i].identifier, list[i].identifier, providerAlias)]

\* variant: a blueprint with a null relation title is left out
generateBlueprintImports_SkipsNullTitles(list, providerAlias) ==
    LET kept == SelectSeq(list, LAMBDA bp : NullTitleIdsOf(bp) = <<>>)
    IN  [i \in 1..Len(kept) |->
           ImportBlock("port_blueprint", kept[i].identifier, kept[i].identifier,
                       providerAlias)]

generateBlueprintImports(list, providerAlias) ==
    [i \in 1..Len(list) |->
        IF isSystemBlueprint(list[i].identifier)
        THEN SystemBlueprintBlock(list[i].identifier, providerAlias)
        ELSE ImportBlock("port_blueprint", list[i].identifier, list[i].identifier,
                         providerAlias)]

generateAggregationPropertyImports(list, providerAlias) ==
    LET kept == SelectSeq(list, LAMBDA bp : /\ Len(bp.aggregationProperties) > 0
                                            /\ ~isSystemBlueprint(bp.identifier))
    IN  [i \in 1..Len(kept) |->
           ImportBlock("port_aggregation_properties",
                       kept[i].identifier \o <<"_aggregation_properties">>,
                       kept[i].identifier, providerAlias)]

\* sidebarResponse.sidebar.items: the folders whose identifier does not
\* start with a digit
generateFolderImports(items, providerAlias) ==
    LET kept == SelectSeq(items, LAMBDA item : /\ item.sidebarType = "folder"
                                               /\ ~(/\ Len(item.identifier) >= 1
                                                    /\ item.identifier[1] \in Digits))
    IN  [i \in 1..Len(kept) |->
           ImportBlock("port_folder", kept[i].identifier, kept[i].identifier, providerAlias)]

RECURSIVE EntityBlocksFrom(_, _, _, _)
EntityBlocksFrom(list, i, systemBlueprintsImported, providerAlias) ==
    IF i > Len(list) THEN <<>>
    ELSE LET entity == list[i]
         IN  IF isSystemBlueprint(entity.blueprint)
             THEN IF entity.blueprint \notin systemBlueprintsImported
                  THEN <<SystemBlueprintBlock(entity.blueprint, providerAlias)>>
                           \o EntityBlocksFrom(list, i + 1,
                                  systemBlueprintsImported \cup {entity.blueprint},
                                  providerAlias)
                  ELSE EntityBlocksFrom(list, i + 1, systemBlueprintsImported, providerAlias)
             ELSE <<ImportBlock("port_entity", cleanIdentifier(entity.identifier),
                                entity.blueprint \o <<":">> \o entity.identifier,
                                providerAlias)>>
                      \o EntityBlocksFrom(list, i + 1, systemBlueprintsImported,
                                          providerAlias)

generateEntityImports(list, providerAlias) ==
    EntityBlocksFrom(list, 1, {}, providerAlias)

-----------------------------------------------------------------------------
(* The data of a run of main, from the lists fetched to the import files   *)
(* and the report, with every call into the network and the filesystem     *)
(* succeeding.  out is the run with the options given; out2 is the run on  *)
(* the same lists and filter options without --auto-fix.                   *)

\* longest list fetched in these runs
MaxRunLen == 2

\* main's locals from the filters on
NoLocals ==
    [threw |-> FALSE,
     filteredIntegrations |-> <<>>, filteredBlueprints |-> <<>>, filteredPages |-> <<>>,
     autoFixes |-> NoFixes,
     files |-> [action |-> <<>>, blueprint |-> <<>>, aggregation_property |-> <<>>,
                scorecard |-> <<>>, integration |-> <<>>, webhook |-> <<>>,
                page |-> <<>>, folder |-> <<>>, entities |-> <<>>],
     warnings |-> NoWarnings, dependencies |-> <<>>, resourceCounts |-> NoCounts,
     report |-> <<>>]

\* lines 266-269
runFilters(l, ints, bps, pgs, options) ==
    LET i == filterIntegrations(ints, options)
        b == filterBlueprints(bps, options)
        p == filterPages(pgs, options)
    IN  IF i.threw \/ b.threw \/ p.threw THEN [l EXCEPT !.threw = TRUE]
        ELSE [l EXCEPT !.filteredIntegrations = i.value,
                       !.filteredBlueprints = b.value,
                       !.filteredPages = p.value]

\* lines 279-300
runAutoFixes_KeepsPages(l, autoFix) ==
    IF ~autoFix THEN l
    ELSE LET pageFixResult ==
                 applyPageAutoFixes(l.filteredPages, mainImportedPageIds(l.filteredPages))
             blueprintFixResult == applyBlueprintAutoFixes(l.filteredBlueprints)
         IN  [l EXCEPT !.filteredBlueprints = blueprintFixResult.blueprints,
                       !.autoFixes =
                           [entityPageTypesFixed |-> pageFixResult.fixes.entityPageTypesFixed,
                            pageOrderingFixed |-> pageFixResult.fixes.pageOrderingFixed,
                            relationTitlesFixed |->
                                blueprintFixResult.fixes.relationTitlesFixed]]

runAutoFixes(l, autoFix) ==
    IF ~autoFix THEN l
    ELSE LET pageFixResult ==
                 applyPageAutoFixes(l.filteredPages, mainImportedPageIds(l.filteredPages))
             blueprintFixResult == applyBlueprintAutoFixes(l.filteredBlueprints)
         IN  [l EXCEPT !.filteredPages = pageFixResult.pages,
                       !.filteredBlueprints = blueprintFixResult.blueprints,
                       !.autoFixes =
                           [entityPageTypesFixed |-> pageFixResult.fixes.entityPageTypesFixed,
                            pageOrderingFixed |-> pageFixResult.fixes.pageOrderingFixed,
                            relationTitlesFixed |->
                                blueprintFixResult.fixes.relationTitlesFixed]]

\* lines 330-351: the content of the nine files
runGenerate(l, acts, scs, whs, items, ents, providerAlias) ==
    [l EXCEPT !.files =
        [action |-> generateActionImports(acts, providerAlias),
         blueprint |-> generateBlueprintImports(l.filteredBlueprints, providerAlias),
         aggregation_property |->
             generateAggregationPropertyImports(l.filteredBlueprints, providerAlias),
         scorecard |-> generateScorecardImports(scs, providerAlias),
         integration |-> generateIntegrationImports(l.filteredIntegrations, providerAlias),
         webhook |-> generateWebhookImports(whs, providerAlias),
         page |-> generatePageImports(l.filteredPages, providerAlias),
         folder |-> generateFolderImports(items, providerAlias),
         entities |-> generateEntityImports(ents, providerAlias)]]

\* lines 359-371
runDetect(l, ints, bps, pgs, acts) ==
    [l EXCEPT !.warnings = detectMigrationWarnings(ints, bps, pgs, acts)]

\* lines 391-411
runReport(l, bps, acts, scs, whs, items, ents, clientId, apiUrl, today) ==
    LET dependencies == buildDependencyGraph(bps)
        resourceCounts ==
            [blueprints |-> Len(l.filteredBlueprints),
             actions |-> Len(acts),
             pages |-> Len(l.filteredPages),
             integrations |-> Len(l.filteredIntegrations),
             scorecards |-> Len(scs),
             webhooks |-> Len(whs),
             folders |-> Len(SelectSeq(items, LAMBDA item : item.sidebarType = "folder")),
             entities |-> Len(ents)]
    IN  [l EXCEPT !.dependencies = dependencies,
                  !.resourceCounts = resourceCounts,
                  !.report = generateMigrationReport(l.warnings, l.autoFixes, resourceCounts,
                                                     dependencies, clientId, apiUrl, today)]

Id_1f == <<"1", "f">>
Id_12 == <<"1", "2">>

RunPagePool ==
    { [identifier |-> Id_a, type |-> "entity", after |-> Id_ab],
      [identifier |-> Id_ab, type |-> "dashboard", after |-> Null,
       widgets |-> <<AiAgentObject>>],
      [identifier |-> Id_sysAi, type |-> "entity", after |-> Id_zz],
      [identifier |-> Id_b, type |-> "dashboard", after |-> Id_sysAi] }

RunBlueprintPool ==
    { [identifier |-> Id_user, title |-> "User", aggregationProperties |-> <<>>,
       relations |-> <<[key |-> Key_x, target |-> Id_user, title |-> Null]>>],
      [identifier |-> Id_ab, title |-> "Service",
       aggregationProperties |-> <<[identifier |-> Id_a, title |-> "Count"]>>,
       relations |-> <<[key |-> Key_owner_team, target |-> Id_a, title |-> Null],
                       [key |-> Key_x, target |-> Id_zz, title |-> Title_X]>>],
      [identifier |-> Id_zz, title |-> "Team", aggregationProperties |-> <<>>] }

RunOptions ==
    { NoOptions,
      [excludeGithubIntegrations |-> TRUE, excludeSystemBlueprints |-> TRUE,
       excludeAiPages |-> TRUE, excludePatterns |-> <<Str_blueprint \o <<":", "z", "*">>>>],
      [NoOptions EXCEPT !.excludePatterns = <<Str_page \o <<":", "a", "b">>>>],
      [NoOptions EXCEPT !.excludePatterns = <<Str_page \o <<":", "?">>>>] }

RunIntegrations ==
    <<[identifier |-> Id_12, title |-> "GitHub", integrationType |-> Str_GitHub],
      [identifier |-> Id_a, title |-> "K8s", integrationType |-> <<"k","8","s">>]>>

RunActions ==
    <<[identifier |-> Id_a, title |-> "Run", automation_trigger |-> <<"t">>],
      [identifier |-> Id_b, title |-> "Stop"]>>

RunScorecardPool ==
    { [identifier |-> Id_a, title |-> "A", blueprint |-> Id_user],
      [identifier |-> Id_b, title |-> "B", blueprint |-> Id_user],
      [identifier |-> Id_a, title |-> "A", blueprint |-> Id_ab] }

RunFolderPool ==
    { [identifier |-> Id_a, sidebarType |-> "folder"],
      [identifier |-> Id_1f, sidebarType |-> "folder"],
      [identifier |-> Id_b, sidebarType |-> "page"] }

RunEntityPool ==
    { [identifier |-> Id_a, title |-> "A", blueprint |-> Id_user],
      [identifier |-> Id_b, title |-> "B", blueprint |-> Id_user],
      [identifier |-> <<".", "a">>, title |-> "A", blueprint |-> Id_ab] }

RunWebhooks == <<[identifier |-> Id_a, title |-> "Hook"]>>

\* the lists that go through filters and fixers vary, or one of the lists
\* that go to their generator as fetched varies
InitPipeline ==
    /\ pc = "fetched"
    /\ fn = "pipeline"
    /\ integrations = RunIntegrations
    /\ actions = RunActions
    /\ webhooks = RunWebhooks
    /\ \/ /\ pages \in SeqsUpTo(RunPagePool, MaxRunLen)
          /\ blueprints \in SeqsUpTo(RunBlueprintPool, MaxRunLen)
          /\ filterOptions \in RunOptions
          /\ scorecards = <<>> /\ folders = <<>> /\ allEntities = <<>>
       \/ /\ pages = <<>> /\ blueprints = <<>> /\ filterOptions = NoOptions
          /\ \/ /\ scorecards \in SeqsUpTo(RunScorecardPool, MaxRunLen)
                /\ folders = <<>> /\ allEntities = <<>>
             \/ /\ folders \in SeqsUpTo(RunFolderPool, MaxRunLen)
                /\ scorecards = <<>> /\ allEntities = <<>>
             \/ /\ allEntities \in SeqsUpTo(RunEntityPool, MaxRunLen)
                /\ scorecards = <<>> /\ folders = <<>>
    /\ cliOptions \in [exportEntitiesForBlueprints : {<<>>}, migrationMode : {FALSE},
                       autoFix : BOOLEAN, generateFixScript : {FALSE}, report : {TRUE},
                       terraform : {FALSE}]
    /\ processEnv = [PORT_CLIENT_ID |-> <<"a","b","c","d","e","f">>,
                     PORT_CLIENT_SECRET |-> <<"s">>, PORT_BEARER_TOKEN |-> Undefined]
    /\ importedPageIds = {}
    /\ IdleMatchInputs
    /\ IdleUnitInputs /\ IdleReportInputs
    /\ heap = NoHeap
    /\ out = NoLocals
    /\ out2 = NoLocals

PipelineFilter ==
    /\ fn = "pipeline" /\ pc = "fetched"
    /\ out' = runFilters(out, integrations, blueprints, pages, filterOptions)
    /\ out2' = runFilters(out2, integrations, blueprints, pages, filterOptions)
    /\ pc' = IF out'.threw THEN "failed" ELSE "filtered"
    /\ UNCHANGED <<fn, inputs, heap>>

PipelineAutoFix ==
    /\ fn = "pipeline" /\ pc = "filtered"
    /\ out' = runAutoFixes(out, cliOptions.autoFix)
    /\ out2' = runAutoFixes(out2, FALSE)
    /\ pc' = "fixed"
    /\ UNCHANGED <<fn, inputs, heap>>

PipelineGenerate ==
    /\ fn = "pipeline" /\ pc = "fixed"
    /\ out' = runGenerate(out, actions, scorecards, webhooks, folders, allEntities,
                          DefaultProviderAlias)
    /\ out2' = runGenerate(out2, actions, scorecards, webhooks, folders, allEntities,
                           DefaultProviderAlias)
    /\ pc' = "written"
    /\ UNCHANGED <<fn, inputs, heap>>

PipelineDetect ==
    /\ fn = "pipeline" /\ pc = "written"
    /\ out' = runDetect(out, integrations, blueprints, pages, actions)
    /\ out2' = runDetect(out2, integrations, blueprints, pages, actions)
    /\ pc' = "detected"
    /\ UNCHANGED <<fn, inputs, heap>>

PipelineReport ==
    /\ fn = "pipeline" /\ pc = "detected" /\ cliOptions.report
    /\ \E today \in ReportDates :
         /\ out' = runReport(out, blueprints, actions, scorecards, webhooks, folders,
                             allEntities, processEnv.PORT_CLIENT_ID,
                             <<"https://api.getport.io">>, today)
         /\ out2' = runReport(out2, blueprints, actions, scorecards, webhooks, folders,
                              allEntities, processEnv.PORT_CLIENT_ID,
                              <<"https://api.getport.io">>, today)
    /\ pc' = "reported"
    /\ UNCHANGED <<fn, inputs, heap>>

NextPipeline ==
    \/ PipelineFilter
    \/ PipelineAutoFix
    \/ PipelineGenerate
    \/ PipelineDetect
    \/ PipelineReport

SpecPipeline == InitPipeline /\ [][NextPipeline]_vars

\* the run has passed the auto-fix step of main
PipelineAfterFix == fn = "pipeline" /\ pc \in {"fixed", "written", "detected", "reported"}

PipelineAfterWrite == fn = "pipeline" /\ pc \in {"written", "detected", "reported"}

PipelineReported == fn = "pipeline" /\ pc = "reported"

\* the identifiers of the pages of the list that are neither system nor
\* virtual pages
ImportedIdsOf(list) ==
    {list[i].identifier : i \in {j \in 1..Len(list) : /\ ~startsWith(list[j].identifier, "_")
                                                       /\ ~startsWith(list[j].identifier, "$")}}

AfterIsUnset(p) == ~Has(p, "after") \/ p.after \in {Null, Undefined, <<>>}

\* C24: after the auto-fix step of a run with --auto-fix, whatever the
\* filter options, every page of the final list that is neither a system
\* nor a virtual page has no after, or an after naming such a page of the
\* same list; once the files are written, a page with an import block.
C24_NoDanglingAfterAutoFix ==
    PipelineAfterFix /\ cliOptions.autoFix =>
        \A i \in 1..Len(out.filteredPages) :
            LET p == out.filteredPages[i]
            IN  p.identifier \in ImportedIdsOf(out.filteredPages) =>
                    \/ AfterIsUnset(p)
                    \/ /\ p.after \in ImportedIdsOf(out.filteredPages)
                       /\ pc # "fixed" =>
                              \E k \in 1..Len(out.files.page) : out.files.page[k].id = p.after

\* a run in which the filters removed the page another page comes after,
\* and the fixer unset that after
C24_Witness ==
    /\ PipelineReported /\ cliOptions.autoFix
    /\ Len(out.filteredPages) < Len(pages)
    /\ out.autoFixes.pageOrderingFixed # <<>>
    /\ \E i \in 1..Len(out2.filteredPages) :
           /\ ~AfterIsUnset(out2.filteredPages[i])
           /\ AfterIsUnset(out.filteredPages[i])

\* a run in which a page keeps its after, which names an imported page
C24_WitnessKept ==
    /\ PipelineReported /\ cliOptions.autoFix
    /\ \E i \in 1..Len(out.filteredPages) :
           /\ ~isSystemPage(out.filteredPages[i])
           /\ ~AfterIsUnset(out.filteredPages[i])

PagesOnly(list) == detectMigrationWarnings(<<>>, <<>>, list, <<>>)

BlueprintsOnly(list) == detectMigrationWarnings(<<>>, list, <<>>, <<>>)

\* C25: with P the page list handed to applyPageAutoFixes together with the
\* identifiers of its pages that are neither system nor virtual, detection
\* on the pages returned finds no entity page type and no page ordering
\* issue, and the two fix lists are the resourceIds detection on P reports
\* in these categories; detection on the blueprints applyBlueprintAutoFixes
\* returns finds no null relation title.
C25_DetectorAndFixerAgree ==
    PipelineAfterFix /\ cliOptions.autoFix =>
        /\ PagesOnly(out.filteredPages).entityPageTypes = <<>>
        /\ PagesOnly(out.filteredPages).pageOrdering = <<>>
        /\ out.autoFixes.entityPageTypesFixed
               = ResourceIds(PagesOnly(out2.filteredPages).entityPageTypes)
        /\ out.autoFixes.pageOrderingFixed
               = ResourceIds(PagesOnly(out2.filteredPages).pageOrdering)
        /\ BlueprintsOnly(out.filteredBlueprints).relationTitles = <<>>

\* pages with both issues and blueprints with null titles went through the
\* fixers
C25_Witness ==
    /\ PipelineAfterFix /\ cliOptions.autoFix
    /\ PagesOnly(out2.filteredPages).entityPageTypes # <<>>
    /\ PagesOnly(out2.filteredPages).pageOrdering # <<>>
    /\ Len(BlueprintsOnly(out2.filteredBlueprints).relationTitles) = 2
    /\ \E i \in 1..Len(out2.filteredPages) : isSystemPage(out2.filteredPages[i])

\* C26: in a run with --auto-fix and --report, every identifier of
\* pageOrderingFixed, of entityPageTypesFixed and of relationTitlesFixed is
\* the resourceId of a warning of the matching category.
C26_EveryFixHasWarning ==
    PipelineReported /\ cliOptions.autoFix =>
        /\ Range(out.autoFixes.pageOrderingFixed)
               \subseteq Range(ResourceIds(out.warnings.pageOrdering))
        /\ Range(out.autoFixes.entityPageTypesFixed)
               \subseteq Range(ResourceIds(out.warnings.entityPageTypes))
        /\ \A i \in 1..Len(out.autoFixes.relationTitlesFixed) :
               LET f == out.autoFixes.relationTitlesFixed[i]
               IN  (f.blueprint \o <<".">> \o f.relation)
                       \in Range(ResourceIds(out.warnings.relationTitles))

\* the two categories in which the fixes do have their warnings
C26_TypeAndTitleFixesHaveWarnings ==
    PipelineReported /\ cliOptions.autoFix =>
        /\ Range(out.autoFixes.entityPageTypesFixed)
               \subseteq Range(ResourceIds(out.warnings.entityPageTypes))
        /\ \A i \in 1..Len(out.autoFixes.relationTitlesFixed) :
               LET f == out.autoFixes.relationTitlesFixed[i]
               IN  (f.blueprint \o <<".">> \o f.relation)
                       \in Range(ResourceIds(out.warnings.relationTitles))

\* C28: on the same lists and filter options, the nine import files of the
\* run with --auto-fix have the content of those of the run without; so
\* have the warnings, the resource counts and the dependency graph: the
\* runs differ in the fix lists only.
C28_AutoFixKeepsImports ==
    PipelineAfterWrite =>
        /\ out.files = out2.files
        /\ out.warnings = out2.warnings
        /\ out.resourceCounts = out2.resourceCounts
        /\ out.dependencies = out2.dependencies

\* a run in which the fixers changed pages and blueprints that are imported
C28_Witness ==
    /\ PipelineReported /\ cliOptions.autoFix
    /\ out.filteredPages # out2.filteredPages
    /\ out.filteredBlueprints # out2.filteredBlueprints
    /\ out.autoFixes # out2.autoFixes
    /\ out.files.page # <<>> /\ out.files.blueprint # <<>>
    /\ out.report # out2.report

\* the rows of the table of the report of the run
ReportRowStates(kind, count) == RowStates(LinesOf(out.report), kind, count)

\* C29: in a run with --report, the count of each row of the Resources
\* Exported table is the number of import blocks written to the file of
\* that kind.
C29_CountsMatchFiles ==
    PipelineReported =>
        /\ ReportRowStates(" Blueprints | ", Len(out.files.blueprint))
        /\ ReportRowStates(" Actions | ", Len(out.files.action))
        /\ ReportRowStates(" Pages | ", Len(out.files.page))
        /\ ReportRowStates(" Integrations | ", Len(out.files.integration))
        /\ ReportRowStates(" Scorecards | ", Len(out.files.scorecard))
        /\ ReportRowStates(" Webhooks | ", Len(out.files.webhook))
        /\ ReportRowStates(" Folders | ", Len(out.files.folder))
        /\ HasRow(LinesOf(out.report), " Entities | ") =>
               ReportRowStates(" Entities | ", Len(out.files.entities))

\* the kinds whose generator writes one block for each resource counted
C29_PlainKindsMatch ==
    PipelineReported =>
        /\ ReportRowStates(" Blueprints | ", Len(out.files.blueprint))
        /\ ReportRowStates(" Actions | ", Len(out.files.action))
        /\ ReportRowStates(" Integrations | ", Len(out.files.integration))
        /\ ReportRowStates(" Webhooks | ", Len(out.files.webhook))

-----------------------------------------------------------------------------
(* ApiClient.getClient called several times in one process.  A call runs   *)
(* without interruption up to its await and from its resumption to its     *)
(* return; the token responses arrive in any order.  out holds the static  *)
(* field instance, the instances constructed and each call's position.     *)

\* most getClient calls of one process
MaxCalls == 3

Calls == 1..MaxCalls

\* the token the server returns to a call
TokenOf(c) == <<"t", ToString(c)>>

NoCall == [at |-> "idle", bearerToken |-> Undefined, result |-> 0, used |-> Undefined]

InitClient ==
    /\ pc = "running"
    /\ fn = "getClient"
    /\ processEnv \in [PORT_CLIENT_ID : {<<"i","d">>}, PORT_CLIENT_SECRET : {<<"s">>},
                       PORT_BEARER_TOKEN : {Undefined, <<"e">>},
                       PORT_API_BASE_URL : {Undefined, <<"api.getport.io">>}]
    /\ cliOptions = NoCliOptions
    /\ scorecards = <<>> /\ webhooks = <<>> /\ folders = <<>> /\ allEntities = <<>>
    /\ IdleListInputs
    /\ IdleMatchInputs
    /\ IdleUnitInputs /\ IdleReportInputs
    /\ heap = NoHeap
    /\ out = [instance |-> 0, instances |-> <<>>, order |-> <<>>,
              calls |-> [c \in Calls |-> NoCall]]
    /\ out2 = NoResult

\* line 59
needsInstance_Always(o) == TRUE

needsInstance(o) == o.instance = 0

\* lines 59-63: from the test of the static field to the return
finish(o, c, bearerToken) ==
    LET made == IF needsInstance(o)
                THEN [o EXCEPT !.instances = Append(@, [bearerToken |-> bearerToken,
                                                        by |-> c]),
                               !.instance = Len(o.instances) + 1]
                ELSE o
    IN  [made EXCEPT !.calls[c].at = "resolved", !.calls[c].result = made.instance]

reject(o, c) == [o EXCEPT !.calls[c].at = "rejected"]

\* line 58 up to the await: with PORT_BEARER_TOKEN set the call runs to its
\* return at once; getPortApiUrl throws when PORT_API_BASE_URL is not set
GetClientCall ==
    /\ fn = "getClient"
    /\ \E c \in Calls :
         /\ out.calls[c].at = "idle"
         /\ LET o == [out EXCEPT !.order = Append(@, c)]
            IN  out' =
                  IF ~Truthy(processEnv.PORT_API_BASE_URL) THEN reject(o, c)
                  ELSE IF Truthy(processEnv.PORT_BEARER_TOKEN)
                  THEN finish([o EXCEPT !.calls[c].bearerToken = processEnv.PORT_BEARER_TOKEN],
                              c, processEnv.PORT_BEARER_TOKEN)
                  ELSE [o EXCEPT !.calls[c].at = "awaiting"]
    /\ UNCHANGED <<pc, fn, inputs, heap, out2>>

\* lines 35-49: the response to the token request of a call, or its failure
TokenResponse ==
    /\ fn = "getClient"
    /\ \E c \in Calls, ok \in BOOLEAN :
         /\ out.calls[c].at = "awaiting"
         /\ out' = IF ok THEN [out EXCEPT !.calls[c].at = "resumable",
                                          !.calls[c].bearerToken = TokenOf(c)]
                   ELSE reject(out, c)
    /\ UNCHANGED <<pc, fn, inputs, heap, out2>>

\* lines 58-63 after the await
GetClientResume ==
    /\ fn = "getClient"
    /\ \E c \in Calls :
         /\ out.calls[c].at = "resumable"
         /\ out' = finish(out, c, out.calls[c].bearerToken)
    /\ UNCHANGED <<pc, fn, inputs, heap, out2>>

\* lines 71-82: a request on the client the call got
ClientGet ==
    /\ fn = "getClient"
    /\ \E c \in Calls :
         /\ out.calls[c].at = "resolved"
         /\ out' = [out EXCEPT !.calls[c].at = "requested",
                               !.calls[c].used =
                                   out.instances[out.calls[c].result].bearerToken]
    /\ UNCHANGED <<pc, fn, inputs, heap, out2>>

NextClient ==
    \/ GetClientCall
    \/ TokenResponse
    \/ GetClientResume
    \/ ClientGet

SpecClient == InitClient /\ [][NextClient]_vars

\* the calls that returned a client
Resolved == {c \in Calls : out.calls[c].at \in {"resolved", "requested"}}

\* C30: whatever the number and the interleaving of the getClient calls of
\* a process, at most one ApiClient is constructed, every call that returns
\* returns that instance, and every request carries the token of the call
\* that constructed it.
C30_ClientIsSingleton ==
    fn = "getClient" =>
        /\ Len(out.instances) <= 1
        /\ \A c \in Resolved : out.calls[c].result = 1 /\ Len(out.instances) = 1
        /\ \A c \in Calls :
               out.calls[c].at = "requested" =>
                   out.calls[c].used = out.calls[out.instances[1].by].bearerToken

\* three calls were pending together; the one made last constructed the
\* client, and the call made first sent a request with that call's token,
\* its own token discarded
C30_Witness ==
    /\ fn = "getClient"
    /\ Len(out.order) = 3
    /\ Len(out.instances) = 1
    /\ out.instances[1].by = out.order[3]
    /\ out.calls[out.order[1]].at = "requested"
    /\ out.calls[out.order[1]].used = TokenOf(out.order[3])
    /\ out.calls[out.order[1]].bearerToken = TokenOf(out.order[1])
    /\ out.calls[out.order[2]].at = "rejected"

====
